---- MODULE Spec2Model ----
(***************************************************************************)
(* Verification model of the rubic-sdk read layer and cross-chain          *)
(* orchestrator:                                                           *)
(*   - Web3Public.rpcBatchRequest / batchEstimatedGas  (JSON-RPC batches)  *)
(*   - Web3Public.getTokensBalances / multicallContractMethod / multicall  *)
(*   - CrossChainManager.calculateTrade and the provider fan-out           *)
(*   - Web3Public.getTransactionByHash, healthCheck, web3BatchRequest,     *)
(*     callForTokenInfo                                                    *)
(*   - getCrossChainContract                                               *)
(* Every component has its own specification; the variables of the other   *)
(* components stay at their initial value in it.                           *)
(***************************************************************************)
EXTENDS Integers, Sequences, FiniteSets, TLC

\* ------------------------------------------------------------- bounds
\* Longest list of calls handed to one batch operation.
MaxLen == 2
\* Last millisecond Date.now() reaches (the clock starts at 0).
MaxClock == 2
\* Longest token address list handed to getTokensBalances.
MaxAddrs == 3
\* Largest balance / returned word of the chain.
MaxBal == 1
\* Largest output amount (to.tokenAmount) of a quote; amounts start at 0.
MaxAmount == 2
\* Largest price of the source token (from.price); prices start at 1.
MaxPrice == 1
\* Largest price of the Celer crypto fee token; prices start at 1.
MaxFeePrice == 1
\* Largest attempt and attemptsLimit a caller hands to getTransactionByHash.
MaxAttempts == 3
\* Largest timeoutMs a caller hands to healthCheck.
MaxTimeoutMs == 4
\* Most calls of getCrossChainContract in one run.
MaxCalls == 3

\* ------------------------------------------------------------- values
\* JavaScript null in a result position (every real result is positive).
Null == -1

\* The in-flight invocations of the batch operations that may overlap.
Slots == {"s1", "s2"}

\* Methods of the contract ABI, and a method name the ABI does not have:
\* contract.methods[name] is then undefined and calling it throws.
AbiMethods == {"swap"}
ContractMethods == AbiMethods \cup {"notInAbi"}

\* Method arguments; the node reverts the estimation of the reverting ones
\* (not enough balance, allowance ...).
MethodParams == {"a1", "a2", "aRevert"}
RevertingParams == {"aRevert"}

RECURSIVE SeqsUpTo(_, _)
\* All sequences over S of length 0..n.
SeqsUpTo(S, n) ==
    IF n = 0 THEN {<<>>}
    ELSE LET shorter == SeqsUpTo(S, n - 1)
         IN  shorter \cup {Append(q, x) : q \in {r \in shorter : Len(r) = n - 1}, x \in S}

\* ------------------------------------------------------------- state
VARIABLES
    clock,        \* Date.now(), in milliseconds
    pc,           \* per slot: "idle", "awaitPost", "resolved", "rejected"
    entry,        \* per slot: the public method called, or "none"
    callsData,    \* per slot: the list of calls the caller passed in
    batch,        \* per slot: the request envelope sent to the node
    transport,    \* per slot: httpClient.post is "none", "pending", "ok", "failed"
    response,     \* per slot: the response entries, in arrival order
    result        \* per slot: the sequence the operation resolved with

rpcVars == <<clock, pc, entry, callsData, batch, transport, response, result>>

VARIABLES
    mcPc,                 \* "idle", "awaitAll", "awaitMulticall", "resolved", "rejected"
    mcEntry,              \* the public method called, or "none"
    passedIn,             \* the token address list as the caller passed it in
    tokensAddresses,      \* the caller's list object (getTokensBalances splices it)
    indexOfNativeCoin,    \* findIndex result: 0-based index, -1 when absent
    methodName,           \* multicallContractMethod: the method to call
    methodCallsArguments, \* multicallContractMethod: one argument list per sub-call
    aggregateCalls,       \* every tryAggregate invocation: (requireSuccess, calls)
    multicallPromise,     \* this.multicall(calls): "none", "pending", "done", "failed"
    outputs,              \* what tryAggregate returned
    balancePromise,       \* this.getBalance(address): "none", "pending", "done", "failed"
    nativeBalance,        \* what the native balance query returned
    mcResult,             \* the sequence the operation resolved with
    mcError               \* the error the operation rejected with, or "none"

VARIABLES
    mgrPc,             \* "idle", "awaitTokens", "awaitCalculations" (Promise.all),
                       \* "resolved", "rejected"
    mgrError,          \* the error calculateTrade rejected with, or "none"
    fromToken,         \* calculateTrade argument
    toToken,           \* calculateTrade argument, with the shape it was passed in
    disabledProviders, \* options.disabledProviders
    networkCalls,      \* token / price resolutions issued so far
    providers,         \* the provider types left after the filter, in registry order
    calculateCalls,    \* per provider type: the times calculate was invoked
    fromPrice,         \* from.price of the resolved source token, 0 before
    calculations,      \* per provider type: the promise of calculationPromises
    inFlight,          \* per provider type: its calculate() promise is still pending
    mgrResult          \* the array calculateTrade resolved with

mgrVars == <<mgrPc, mgrError, fromToken, toToken, disabledProviders, networkCalls,
             providers, calculateCalls, fromPrice, calculations, inFlight, mgrResult>>

mcVars == <<mcPc, mcEntry, passedIn, tokensAddresses, indexOfNativeCoin, methodName,
            methodCallsArguments, aggregateCalls, multicallPromise, outputs,
            balancePromise, nativeBalance, mcResult, mcError>>

VARIABLES
    txPc,        \* "idle", "awaitGetTransaction", "awaitTimer", "resolved", "rejected"
    txArgs,      \* the arguments of the caller: attempt, attemptsLimit, delay
    txAttempt,   \* attempt of the call that is running
    txLimit,     \* limit of the call that is running
    txTimeoutMs, \* timeoutMs of the call that is running
    txLookups,   \* the calls of web3.eth.getTransaction so far
    txResult     \* "none", "null" or the transaction the operation resolved with

txVars == <<txPc, txArgs, txAttempt, txLimit, txTimeoutMs, txLookups, txResult>>

VARIABLES
    hcPc,         \* "idle", "awaitCall", "resolved"
    hcBlockchain, \* this.blockchainName
    hcHealthcheck, \* "none", or the expected value of HEALTHCHECK[blockchainName]
    hcTimeoutMs,  \* timeoutMs of the call
    hcOutcome,    \* what the node call did: "none", "answered", "failed", "timeout"
    hcAnswer,     \* the value the node answered, or "none"
    hcResult      \* "none", or the value healthCheck resolved with

hcVars == <<hcPc, hcBlockchain, hcHealthcheck, hcTimeoutMs, hcOutcome, hcAnswer, hcResult>>

VARIABLES
    wbPc,        \* "idle", "executing", "resolved", "rejected"
    wbCalls,     \* the calls handed to web3BatchRequest, with their parameters
    wbPromises,  \* per call: the promise of its callback
    wbFired,     \* the positions of the calls in the order their callbacks fired
    wbResult     \* the array web3BatchRequest resolved with

wbVars == <<wbPc, wbCalls, wbPromises, wbFired, wbResult>>

VARIABLES
    tiPc,        \* per caller: "idle", "waiting", "resolved", "rejected"
    tiKey,       \* per caller: the (tokenAddress, tokenFields) it asked for
    tiFetch,     \* per caller: the number of the fetch it waits for or got its result from
    tiJoined,    \* per caller: the callers that waited for the same key when it called
    tiResult,    \* per caller: the token info it resolved with
    tiCache,     \* per key: the number of the fetch the cache holds, 0 for none
    tiFetches    \* the remote fetches started so far: key, state, value

tiVars == <<tiPc, tiKey, tiFetch, tiJoined, tiResult, tiCache, tiFetches>>

VARIABLES
    ccContracts,   \* crossChainContracts: per blockchain the stored ContractData, or Null
    ccConstructed, \* per blockchain: the ContractData constructed so far
    ccInstances,   \* the ContractData constructed so far, over all blockchains
    ccFirst,       \* per blockchain: what the first call for it returned, or Null
    ccLast,        \* the last call: its blockchain and what it returned
    ccCalls        \* the calls of getCrossChainContract so far

ccVars == <<ccContracts, ccConstructed, ccInstances, ccFirst, ccLast, ccCalls>>

\* What the actions of one component leave alone.
notRpcVars == <<mcVars, mgrVars, txVars, hcVars, wbVars, tiVars, ccVars>>
notMcVars == <<rpcVars, mgrVars, txVars, hcVars, wbVars, tiVars, ccVars>>
notMgrVars == <<rpcVars, mcVars, txVars, hcVars, wbVars, tiVars, ccVars>>
notTxVars == <<rpcVars, mcVars, mgrVars, hcVars, wbVars, tiVars, ccVars>>
notHcVars == <<rpcVars, mcVars, mgrVars, txVars, wbVars, tiVars, ccVars>>
notWbVars == <<rpcVars, mcVars, mgrVars, txVars, hcVars, tiVars, ccVars>>
notTiVars == <<rpcVars, mcVars, mgrVars, txVars, hcVars, wbVars, ccVars>>
notCcVars == <<rpcVars, mcVars, mgrVars, txVars, hcVars, wbVars, tiVars>>

\* ------------------------------------------------------------- the node
\* contract.methods[m](...params).encodeABI(): the call data of one call.
encodeABI(callData) == <<callData.contractMethod, callData.params>>

\* encodeABI throws for a method the ABI does not have.
Encodable(callData) == callData.contractMethod \in AbiMethods

\* The node's gas estimate / call result for a request that does not revert.
NodeResult(params) ==
    CASE params.data[2] = "a1" -> 21000
      [] params.data[2] = "a2" -> 52000
      [] OTHER -> 1

NodeReverts(params) == params.data[2] \in RevertingParams

\* The response entry of the node for one request of the batch: {id, error}
\* for a node-side error, {id, result} otherwise.
NodeAnswer(request) ==
    [id     |-> request.id,
     error  |-> NodeReverts(request.params[1]),
     result |-> IF NodeReverts(request.params[1]) THEN Null
                ELSE NodeResult(request.params[1])]

\* Arrival orders of the entries of a batch of n requests the interface
\* allows: at most one entry per request, any subset, any order.
Arrivals(n) ==
    {q \in UNION {[1..m -> 1..n] : m \in 0..n} :
        \A a, b \in DOMAIN q : a # b => q[a] # q[b]}

AllowedResponses(b) ==
    {[k \in DOMAIN q |-> NodeAnswer(b[q[k]])] : q \in Arrivals(Len(b))}

\* ------------------------------------------------------------- rpcBatchRequest
\* rpcCallsData.map((callData, index) => ({id: seed + index, ...}))
BuildBatch(seed, rpcCallsData) ==
    [k \in DOMAIN rpcCallsData |->
        [id      |-> seed + (k - 1),
         jsonrpc |-> "2.0",
         method  |-> rpcCallsData[k].rpcMethod,
         params  |-> <<rpcCallsData[k].params>>]]

RECURSIVE InsertById(_, _)
\* Insert item into a sequence sorted by id, after the entries that do not
\* compare greater (comparator (a, b) => a.id - b.id, stable).
InsertById(sorted, item) ==
    IF sorted = <<>> THEN <<item>>
    ELSE IF sorted[Len(sorted)].id - item.id > 0
         THEN Append(InsertById(SubSeq(sorted, 1, Len(sorted) - 1), item),
                     sorted[Len(sorted)])
         ELSE Append(sorted, item)

\* A faulty variant of SortById: the response is left in arrival order.
SortByIdArrivalOrder(resp) == resp

RECURSIVE SortById(_)
\* response.sort((a, b) => a.id - b.id)
SortById(resp) ==
    IF resp = <<>> THEN <<>>
    ELSE InsertById(SortById(SubSeq(resp, 1, Len(resp) - 1)), resp[Len(resp)])

\* response.sort(...).map(item => (item.error ? null : item.result))
RpcResult(resp) ==
    LET sorted == SortById(resp)
    IN  [k \in DOMAIN sorted |-> IF sorted[k].error THEN Null ELSE sorted[k].result]

\* The rpc calls the callers of rpcBatchRequest pass in.
RpcCalls ==
    [rpcMethod : {"eth_estimateGas"},
     params    : [from : {"fromAddress"}, to : {"contractAddress"},
                  data : AbiMethods \X MethodParams]]

\* The calls the callers of batchEstimatedGas pass in.
BatchCalls == [contractMethod : ContractMethods, params : MethodParams]

\* batchEstimatedGas: dataList.map((data, index) => ({rpcMethod, params}))
GasRpcCallsData(cd) ==
    [k \in DOMAIN cd |->
        [rpcMethod |-> "eth_estimateGas",
         params    |-> [from |-> "fromAddress", to |-> "contractAddress",
                        data |-> encodeABI(cd[k])]]]

\* result.map(value => (value ? new BigNumber(value) : null))
GasResult(res) == [k \in DOMAIN res |-> IF res[k] # Null THEN res[k] ELSE Null]

\* callsData.map(() => null)
AllNull(cd) == [k \in DOMAIN cd |-> Null]

RpcInit ==
    /\ clock = 0
    /\ pc = [s \in Slots |-> "idle"]
    /\ entry = [s \in Slots |-> "none"]
    /\ callsData = [s \in Slots |-> <<>>]
    /\ batch = [s \in Slots |-> <<>>]
    /\ transport = [s \in Slots |-> "none"]
    /\ response = [s \in Slots |-> <<>>]
    /\ result = [s \in Slots |-> <<>>]

\* One millisecond passes.
Tick ==
    /\ clock < MaxClock
    /\ clock' = clock + 1
    /\ UNCHANGED <<pc, entry, callsData, batch, transport, response, result>>
    /\ UNCHANGED notRpcVars

\* rpcBatchRequest(rpcCallsData) up to the await of httpClient.post.
RpcBatchRequest(s, rpcCallsData) ==
    /\ pc[s] = "idle"
    /\ entry' = [entry EXCEPT ![s] = "rpcBatchRequest"]
    /\ callsData' = [callsData EXCEPT ![s] = rpcCallsData]
    /\ batch' = [batch EXCEPT ![s] = BuildBatch(clock, rpcCallsData)]
    /\ transport' = [transport EXCEPT ![s] = "pending"]
    /\ pc' = [pc EXCEPT ![s] = "awaitPost"]
    /\ UNCHANGED <<clock, response, result>>
    /\ UNCHANGED notRpcVars

\* batchEstimatedGas(abi, contractAddress, fromAddress, cd) up to its first
\* await: encoding a call the ABI does not have throws inside the try block
\* and the catch resolves the whole list to nulls; otherwise the batch is
\* built by rpcBatchRequest and posted.
BatchEstimatedGas(s, cd) ==
    /\ pc[s] = "idle"
    /\ entry' = [entry EXCEPT ![s] = "batchEstimatedGas"]
    /\ callsData' = [callsData EXCEPT ![s] = cd]
    /\ IF \A k \in DOMAIN cd : Encodable(cd[k])
       THEN /\ batch' = [batch EXCEPT ![s] = BuildBatch(clock, GasRpcCallsData(cd))]
            /\ transport' = [transport EXCEPT ![s] = "pending"]
            /\ pc' = [pc EXCEPT ![s] = "awaitPost"]
            /\ UNCHANGED result
       ELSE /\ result' = [result EXCEPT ![s] = AllNull(cd)]
            /\ pc' = [pc EXCEPT ![s] = "resolved"]
            /\ UNCHANGED <<batch, transport>>
    /\ UNCHANGED <<clock, response>>
    /\ UNCHANGED notRpcVars

\* httpClient.post resolves with resp; the operation maps it to its result.
HttpPostResolve(s, resp) ==
    /\ pc[s] = "awaitPost"
    /\ transport' = [transport EXCEPT ![s] = "ok"]
    /\ response' = [response EXCEPT ![s] = resp]
    /\ result' = [result EXCEPT ![s] =
            IF entry[s] = "batchEstimatedGas" THEN GasResult(RpcResult(resp))
            ELSE RpcResult(resp)]
    /\ pc' = [pc EXCEPT ![s] = "resolved"]
    /\ UNCHANGED <<clock, entry, callsData, batch>>
    /\ UNCHANGED notRpcVars

\* httpClient.post rejects (the network call itself fails): rpcBatchRequest
\* rejects; batchEstimatedGas catches the rejection and resolves to nulls.
HttpPostReject(s) ==
    /\ pc[s] = "awaitPost"
    /\ transport' = [transport EXCEPT ![s] = "failed"]
    /\ IF entry[s] = "batchEstimatedGas"
       THEN /\ result' = [result EXCEPT ![s] = AllNull(callsData[s])]
            /\ pc' = [pc EXCEPT ![s] = "resolved"]
       ELSE /\ pc' = [pc EXCEPT ![s] = "rejected"]
            /\ UNCHANGED result
    /\ UNCHANGED <<clock, entry, callsData, batch, response>>
    /\ UNCHANGED notRpcVars

\* One invocation at a time.
RpcNext ==
    \/ Tick
    \/ \E cd \in SeqsUpTo(RpcCalls, MaxLen) : RpcBatchRequest("s1", cd)
    \/ \E cd \in SeqsUpTo(BatchCalls, MaxLen) : BatchEstimatedGas("s1", cd)
    \/ \E resp \in AllowedResponses(batch["s1"]) : HttpPostResolve("s1", resp)
    \/ HttpPostReject("s1")

\* Overlapping rpcBatchRequest invocations.
ConcNext ==
    \/ Tick
    \/ \E s \in Slots : \E cd \in SeqsUpTo(RpcCalls, MaxLen) : RpcBatchRequest(s, cd)
    \/ \E s \in Slots : \E resp \in AllowedResponses(batch[s]) : HttpPostResolve(s, resp)
    \/ \E s \in Slots : HttpPostReject(s)

\* ------------------------------------------------------------- multicall
NATIVE_TOKEN_ADDRESS == "0x0000000000000000000000000000000000000000"
TokenAddresses == {"0xTokenA", "0xTokenB"}
Addresses == TokenAddresses \cup {NATIVE_TOKEN_ADDRESS}

\* Web3Pure.isNativeAddress
isNativeAddress(address) == address = NATIVE_TOKEN_ADDRESS

\* Raw words returned on chain, and the number they encode.
ReturnDatas == {<<"0x", n>> : n \in 0..MaxBal}
\* new BigNumber(returnData)
BigNumberOf(returnData) == returnData[2]

\* tryAggregate's result entries.
MulticallResponses == [success : BOOLEAN, returnData : ReturnDatas]

RECURSIVE findIndex(_, _, _)
\* array.findIndex(isNativeAddress), searching from 0-based index `from`.
findIndex(array, from, n) ==
    IF from >= n THEN -1
    ELSE IF isNativeAddress(array[from + 1]) THEN from
         ELSE findIndex(array, from + 1, n)

\* array.splice(start, 1): the array without the element at 0-based start.
SpliceRemove(array, start) ==
    [k \in 1..(Len(array) - 1) |-> IF k <= start THEN array[k] ELSE array[k + 1]]

\* array.splice(start, 0, item): item inserted at 0-based start (clamped).
SpliceInsert(array, start, item) ==
    LET at == IF start > Len(array) THEN Len(array) ELSE start
    IN  [k \in 1..(Len(array) + 1) |->
            IF k <= at THEN array[k]
            ELSE IF k = at + 1 THEN item
                 ELSE array[k - 1]]

\* tokensAddresses.map(tokenAddress => ({target, callData: balanceOf(address)}))
BalanceCalls(addresses) ==
    [k \in DOMAIN addresses |->
        [target |-> addresses[k], callData |-> <<"balanceOf", "address">>]]

\* A faulty variant of BalancesOf: one failed sub-call voids the balance of
\* every sub-call.
BalancesOfAllOrNothing(outs) ==
    [k \in DOMAIN outs |->
        IF \A j \in DOMAIN outs : outs[j].success
        THEN BigNumberOf(outs[k].returnData) ELSE 0]

\* results[0].map(({success, returnData}) => success ? BigNumber(returnData) : BigNumber(0))
BalancesOf(outs) ==
    [k \in DOMAIN outs |-> IF outs[k].success THEN BigNumberOf(outs[k].returnData) ELSE 0]

\* The tail of getTokensBalances after Promise.all: map, then splice the
\* native balance back in at indexOfNativeCoin.
TokensBalances(outs, index, balance) ==
    IF index # -1 THEN SpliceInsert(BalancesOf(outs), index, balance)
    ELSE BalancesOf(outs)

\* Methods of the ABI handed to multicallContractMethod: one with an outputs
\* description, one without; and a name the ABI does not have.
McAbiWithOutputs == {"getAmountsOut"}
McAbiMethods == McAbiWithOutputs \cup {"noOutputs"}
McMethodNames == McAbiMethods \cup {"notInAbi"}
ArgumentLists == {<<"x">>, <<"y">>}

\* methodCallsArguments.map(callArguments => ({callData, target: contractAddress}))
MethodCalls(name, argumentLists) ==
    [k \in DOMAIN argumentLists |->
        [callData |-> <<name, argumentLists[k]>>, target |-> "contractAddress"]]

\* this.web3.eth.abi.decodeParameters(methodOutputAbi, returnData)
decodeParameters(returnData) == returnData[2]

\* A faulty variant of ContractMulticallResponses: one failed sub-call voids
\* the output of every sub-call.
ContractMulticallResponsesAllOrNothing(outs) ==
    [k \in DOMAIN outs |->
        [success |-> outs[k].success,
         output  |-> IF \A j \in DOMAIN outs : outs[j].success
                     THEN decodeParameters(outs[k].returnData)
                     ELSE Null]]

\* outputs.map(output => ({success, output: success ? decode(returnData) : null}))
ContractMulticallResponses(outs) ==
    [k \in DOMAIN outs |->
        [success |-> outs[k].success,
         output  |-> IF outs[k].success THEN decodeParameters(outs[k].returnData)
                     ELSE Null]]

\* private multicall(calls): contract.methods.tryAggregate(false, calls).call()
multicall(calls) == [requireSuccess |-> FALSE, calls |-> calls]

McInit ==
    /\ mcPc = "idle"
    /\ mcEntry = "none"
    /\ passedIn = <<>>
    /\ tokensAddresses = <<>>
    /\ indexOfNativeCoin = -1
    /\ methodName = "none"
    /\ methodCallsArguments = <<>>
    /\ aggregateCalls = <<>>
    /\ multicallPromise = "none"
    /\ outputs = <<>>
    /\ balancePromise = "none"
    /\ nativeBalance = Null
    /\ mcResult = <<>>
    /\ mcError = "none"

\* getTokensBalances(address, addrs) up to the await of Promise.all.
GetTokensBalances(addrs) ==
    LET index == findIndex(addrs, 0, Len(addrs))
        rest  == IF index # -1 THEN SpliceRemove(addrs, index) ELSE addrs
    IN  /\ mcPc = "idle"
        /\ mcEntry' = "getTokensBalances"
        /\ passedIn' = addrs
        /\ indexOfNativeCoin' = index
        /\ tokensAddresses' = rest
        /\ balancePromise' = IF index # -1 THEN "pending" ELSE "none"
        /\ aggregateCalls' = Append(aggregateCalls, multicall(BalanceCalls(rest)))
        /\ multicallPromise' = "pending"
        /\ mcPc' = "awaitAll"
        /\ UNCHANGED <<methodName, methodCallsArguments, outputs, nativeBalance,
                       mcResult, mcError>>
        /\ UNCHANGED notMcVars

\* multicallContractMethod(contractAddress, contractAbi, name, argumentLists)
\* up to the await of this.multicall: building the call of a method the ABI
\* does not have throws before anything is sent.
MulticallContractMethod(name, argumentLists) ==
    /\ mcPc = "idle"
    /\ mcEntry' = "multicallContractMethod"
    /\ methodName' = name
    /\ methodCallsArguments' = argumentLists
    /\ IF name \notin McAbiMethods /\ argumentLists # <<>>
       THEN /\ mcPc' = "rejected"
            /\ mcError' = "TypeError"
            /\ UNCHANGED <<aggregateCalls, multicallPromise>>
       ELSE /\ aggregateCalls' =
                   Append(aggregateCalls, multicall(MethodCalls(name, argumentLists)))
            /\ multicallPromise' = "pending"
            /\ mcPc' = "awaitMulticall"
            /\ UNCHANGED mcError
    /\ UNCHANGED <<passedIn, tokensAddresses, indexOfNativeCoin, outputs,
                   balancePromise, nativeBalance, mcResult>>
    /\ UNCHANGED notMcVars

\* The tryAggregate call returns outs, one entry per call, in the order of
\* the calls. multicallContractMethod continues; getTokensBalances continues
\* when the native balance query is not outstanding.
TryAggregateResolve(outs) ==
    /\ multicallPromise = "pending"
    /\ Len(outs) = Len(aggregateCalls[Len(aggregateCalls)].calls)
    \* with requireSuccess set the contract reverts when a sub-call fails
    /\ aggregateCalls[Len(aggregateCalls)].requireSuccess
         => \A k \in DOMAIN outs : outs[k].success
    /\ multicallPromise' = "done"
    /\ outputs' = outs
    /\ IF mcPc = "awaitMulticall"
       THEN IF methodName \in McAbiWithOutputs
            THEN /\ mcResult' = ContractMulticallResponses(outs)
                 /\ mcPc' = "resolved"
                 /\ UNCHANGED mcError
            ELSE /\ mcPc' = "rejected"
                 /\ mcError' = "RubicError"
                 /\ UNCHANGED mcResult
       ELSE IF mcPc = "awaitAll" /\ balancePromise # "pending"
            THEN /\ mcResult' = TokensBalances(outs, indexOfNativeCoin, nativeBalance)
                 /\ mcPc' = "resolved"
                 /\ UNCHANGED mcError
            ELSE UNCHANGED <<mcResult, mcPc, mcError>>
    /\ UNCHANGED <<mcEntry, passedIn, tokensAddresses, indexOfNativeCoin, methodName,
                   methodCallsArguments, aggregateCalls, balancePromise, nativeBalance>>
    /\ UNCHANGED notMcVars

\* The tryAggregate call itself fails: the awaiting operation rejects.
TryAggregateReject ==
    /\ multicallPromise = "pending"
    /\ multicallPromise' = "failed"
    /\ IF mcPc \in {"awaitMulticall", "awaitAll"}
       THEN mcPc' = "rejected" /\ mcError' = "CallError"
       ELSE UNCHANGED <<mcPc, mcError>>
    /\ UNCHANGED <<mcEntry, passedIn, tokensAddresses, indexOfNativeCoin, methodName,
                   methodCallsArguments, aggregateCalls, outputs, balancePromise,
                   nativeBalance, mcResult>>
    /\ UNCHANGED notMcVars

\* web3.eth.getBalance(address) returns; getTokensBalances continues when the
\* multicall is not outstanding.
GetBalanceResolve(balance) ==
    /\ balancePromise = "pending"
    /\ balancePromise' = "done"
    /\ nativeBalance' = balance
    /\ IF mcPc = "awaitAll" /\ multicallPromise = "done"
       THEN /\ mcResult' = TokensBalances(outputs, indexOfNativeCoin, balance)
            /\ mcPc' = "resolved"
       ELSE UNCHANGED <<mcResult, mcPc>>
    /\ UNCHANGED <<mcEntry, passedIn, tokensAddresses, indexOfNativeCoin, methodName,
                   methodCallsArguments, aggregateCalls, multicallPromise, outputs,
                   mcError>>
    /\ UNCHANGED notMcVars

\* web3.eth.getBalance(address) fails: Promise.all rejects.
GetBalanceReject ==
    /\ balancePromise = "pending"
    /\ balancePromise' = "failed"
    /\ IF mcPc = "awaitAll"
       THEN mcPc' = "rejected" /\ mcError' = "CallError"
       ELSE UNCHANGED <<mcPc, mcError>>
    /\ UNCHANGED <<mcEntry, passedIn, tokensAddresses, indexOfNativeCoin, methodName,
                   methodCallsArguments, aggregateCalls, multicallPromise, outputs,
                   nativeBalance, mcResult>>
    /\ UNCHANGED notMcVars

\* The number of sub-calls of the tryAggregate call in flight.
PendingCalls ==
    IF aggregateCalls = <<>> THEN 0
    ELSE Len(aggregateCalls[Len(aggregateCalls)].calls)

McNext ==
    \/ \E addrs \in SeqsUpTo(Addresses, MaxAddrs) : GetTokensBalances(addrs)
    \/ \E name \in McMethodNames :
         \E argumentLists \in SeqsUpTo(ArgumentLists, MaxLen) :
            MulticallContractMethod(name, argumentLists)
    \/ \E outs \in [1..PendingCalls -> MulticallResponses] : TryAggregateResolve(outs)
    \/ TryAggregateReject
    \/ \E balance \in 0..MaxBal : GetBalanceResolve(balance)
    \/ GetBalanceReject

\* ------------------------------------------------------------- CrossChainManager
Blockchains == {"ETH", "BSC", "NEAR"}
\* CelerCrossChainTradeProvider.isSupportedBlockchain
CelerSupportedBlockchains == {"ETH", "BSC"}
isSupportedBlockchain(blockchain) == blockchain \in CelerSupportedBlockchains

\* tradeProviders: Object.entries lists the types in the order of insertion.
tradeProviders == <<"RUBIC", "CELER", "SYMBIOSIS", "LIFI">>
ProviderTypes == {tradeProviders[k] : k \in DOMAIN tradeProviders}

FromTokens == [blockchain : Blockchains, address : {"0xTokenA"}]
\* isToken: the argument is a Token instance, not a plain {address, blockchain}.
ToTokens == [blockchain : Blockchains, address : TokenAddresses, isToken : BOOLEAN]

RECURSIVE FilterSeq(_, _)
\* array.filter(keep), keep given as the set of kept values.
FilterSeq(array, keep) ==
    IF array = <<>> THEN <<>>
    ELSE LET init == FilterSeq(SubSeq(array, 1, Len(array) - 1), keep)
         IN  IF array[Len(array)] \in keep THEN Append(init, array[Len(array)])
             ELSE init

\* A faulty variant of the filter that ignores disabledProviders.
ProviderKeptIgnoringDisabled(type, disabled, from, to) ==
    ~(type = "RUBIC" /\ isSupportedBlockchain(from.blockchain)
                     /\ isSupportedBlockchain(to.blockchain))

\* A faulty variant of the filter that never drops RUBIC for Celer.
ProviderKeptWithoutSuppression(type, disabled, from, to) == type \notin disabled

\* The filter of calculateTradeFromTokens: a disabled type is dropped, and
\* RUBIC is dropped when Celer supports both blockchains.
ProviderKept(type, disabled, from, to) ==
    /\ type \notin disabled
    /\ ~(type = "RUBIC" /\ isSupportedBlockchain(from.blockchain)
                        /\ isSupportedBlockchain(to.blockchain))

SelectedProviders(disabled, from, to) ==
    FilterSeq(tradeProviders,
              {type \in ProviderTypes : ProviderKept(type, disabled, from, to)})

\* if (toToken instanceof Token && fromToken.blockchain === toToken.blockchain)
RejectedByValidation(from, to) == to.isToken /\ from.blockchain = to.blockchain

\* A faulty variant of the check of the providers that never throws.
NoProvidersNeverThrown(kept) == FALSE

\* if (!providers.length) throw 'There are no providers for trade'
NoProviders(kept) == kept = <<>>

\* A faulty variant of the launch that starts the first provider only.
LaunchedFirstOnly(kept) == {kept[1]}

\* providers.map(async ...) runs every arrow function up to its first await:
\* calculate has been invoked on each provider kept when map returns.
Launched(kept) == {kept[k] : k \in DOMAIN kept}

\* -- what provider.calculate can do
Failure(kind) ==
    [kind |-> kind, hasTrade |-> FALSE, toAmount |-> 0, cryptoFee |-> 0,
     error |-> FALSE]

\* A wrapped trade with a trade: { trade }. cryptoFee is the price of the
\* crypto fee token, which only a Celer trade has.
Quotes(type) ==
    [kind : {"returns"}, hasTrade : {TRUE}, toAmount : 0..MaxAmount,
     cryptoFee : IF type = "CELER" THEN 1..MaxFeePrice ELSE {0},
     error : {FALSE}]

\* The error outcome of a provider's own catch: { trade: null, error }.
ErrorOutcome ==
    [kind |-> "returns", hasTrade |-> FALSE, toAmount |-> 0, cryptoFee |-> 0,
     error |-> TRUE]

\* How the promise of calculate settles: with a wrapped trade, with the error
\* outcome, with null, or by rejecting.
Settlements(type) ==
    Quotes(type) \cup {ErrorOutcome, Failure("returnsNull"), Failure("rejects")}

\* pTimeout(calculation, timeout) rejects with a timeout error when its timer
\* fires while calculation is still pending.
TimedOut == Failure("timeout")

\* -- the promises of calculationPromises
NotStarted(type) ==
    [state |-> "none", outcome |-> "none", tradeType |-> type, hasTrade |-> FALSE,
     toAmount |-> 0, cryptoFee |-> 0, error |-> FALSE]

Pending(type) == [NotStarted(type) EXCEPT !.state = "pending"]

\* A faulty variant of the arrow function that lets the timeout error out.
CapturedTimeoutEscapes(type, event) ==
    [state     |-> IF event.kind = "returns" THEN "wrapped"
                   ELSE IF event.kind = "timeout" THEN "rejected" ELSE "null",
     outcome   |-> event.kind,
     tradeType |-> type,
     hasTrade  |-> event.kind = "returns" /\ event.hasTrade,
     toAmount  |-> IF event.kind = "returns" THEN event.toAmount ELSE 0,
     cryptoFee |-> IF event.kind = "returns" THEN event.cryptoFee ELSE 0,
     error     |-> event.kind = "returns" /\ event.error]

\* A faulty variant of the arrow function that lets a provider's error out.
CapturedRaiseEscapes(type, event) ==
    [state     |-> IF event.kind = "returns" THEN "wrapped"
                   ELSE IF event.kind \in {"throws", "rejects"} THEN "rejected"
                   ELSE "null",
     outcome   |-> event.kind,
     tradeType |-> type,
     hasTrade  |-> event.kind = "returns" /\ event.hasTrade,
     toAmount  |-> IF event.kind = "returns" THEN event.toAmount ELSE 0,
     cryptoFee |-> IF event.kind = "returns" THEN event.cryptoFee ELSE 0,
     error     |-> event.kind = "returns" /\ event.error]

\* The arrow function of providers.map: a wrapped trade becomes
\* {...wrappedTrade, tradeType}; a null return, a throw of calculate, a
\* rejection of its promise and the timeout of pTimeout become null
\* (state "null": fulfilled with null; "wrapped": fulfilled with an object).
Captured(type, event) ==
    [state     |-> IF event.kind = "returns" THEN "wrapped" ELSE "null",
     outcome   |-> event.kind,
     tradeType |-> type,
     hasTrade  |-> event.kind = "returns" /\ event.hasTrade,
     toAmount  |-> IF event.kind = "returns" THEN event.toAmount ELSE 0,
     cryptoFee |-> IF event.kind = "returns" THEN event.cryptoFee ELSE 0,
     error     |-> event.kind = "returns" /\ event.error]

\* notNull of (await Promise.all(calculationPromises)).filter(notNull)
notNull(promise) == promise.state # "null"

RECURSIVE FilterNotNull(_)
\* A faulty variant of the filter that keeps the null values.
FilterNotNullKeepsAll(results) == results

FilterNotNull(results) ==
    IF results = <<>> THEN <<>>
    ELSE LET init == FilterNotNull(SubSeq(results, 1, Len(results) - 1))
             last == results[Len(results)]
         IN  IF notNull(last) THEN Append(init, last) ELSE init

\* The entry of the returned array: { trade, error, tradeType }.
WrappedTrade(promise) ==
    [tradeType |-> promise.tradeType, hasTrade |-> promise.hasTrade,
     toAmount |-> promise.toAmount, cryptoFee |-> promise.cryptoFee,
     error |-> promise.error]

\* A faulty variant of the check of the results that never throws.
NoSuccessProvidersNeverThrown(results) == FALSE

\* if (!results?.length) throw 'No success providers calculation for the trade'
NoSuccessProviders(results) == results = <<>>

\* -- ranking
\* BigNumber(Infinity); a ratio is num / den, den = 0 standing for Infinity.
Infinity == [num |-> 1, den |-> 0]

\* BigNumber.dividedBy for a positive dividend: x / 0 is Infinity.
dividedBy(dividend, divisor) ==
    IF divisor = 0 THEN Infinity ELSE [num |-> dividend, den |-> divisor]

\* BigNumber.comparedTo: -1, 0 or 1.
comparedTo(first, second) ==
    IF first.den = 0 /\ second.den = 0 THEN 0
    ELSE IF first.den = 0 THEN 1
    ELSE IF second.den = 0 THEN -1
    ELSE IF first.num * second.den < second.num * first.den THEN -1
    ELSE IF first.num * second.den > second.num * first.den THEN 1
    ELSE 0

\* A faulty variant of getProviderRatio that gives a quote without a trade
\* the ratio 0.
getProviderRatioNullTradeFree(trade, fromTokenPrice) ==
    IF ~trade.hasTrade THEN [num |-> 0, den |-> 1]
    ELSE IF fromTokenPrice = Null THEN Infinity
    ELSE IF trade.tradeType = "CELER"
         THEN dividedBy(fromTokenPrice + trade.cryptoFee, trade.toAmount)
         ELSE dividedBy(fromTokenPrice, trade.toAmount)

\* A faulty variant of getProviderRatio that leaves the crypto fee out.
getProviderRatioWithoutFee(trade, fromTokenPrice) ==
    IF ~trade.hasTrade \/ fromTokenPrice = Null THEN Infinity
    ELSE dividedBy(fromTokenPrice, trade.toAmount)

getProviderRatio(trade, fromTokenPrice) ==
    IF ~trade.hasTrade \/ fromTokenPrice = Null THEN Infinity
    ELSE IF trade.tradeType = "CELER"
         THEN dividedBy(fromTokenPrice + trade.cryptoFee, trade.toAmount)
         ELSE dividedBy(fromTokenPrice, trade.toAmount)

\* trade.from.price of a quote (Null without a trade): a provider builds its
\* trade from `from`, the PriceTokenAmount of the source token, which has the
\* price of that token.
tradeFromPrice(wrappedTrade, price) ==
    IF wrappedTrade.hasTrade THEN price ELSE Null

\* wrappedTrades.find(w => w.trade instanceof LifiCrossChainTrade)?.trade.from.price
\* (Null: undefined); the trade of the Lifi provider carries the price of from.
FromTokenPrice(wrappedTrades, price) ==
    IF \E k \in DOMAIN wrappedTrades :
           wrappedTrades[k].tradeType = "LIFI" /\ wrappedTrades[k].hasTrade
    THEN price
    ELSE Null

\* A faulty variant of the comparator that compares the ratios the other
\* way round.
compareFnDescending(tradeA, tradeB, fromTokenPrice) ==
    IF fromTokenPrice = Null
    THEN IF tradeA.hasTrade THEN -1 ELSE 1
    ELSE comparedTo(getProviderRatio(tradeB, fromTokenPrice),
                    getProviderRatio(tradeA, fromTokenPrice))

\* A faulty variant of the comparator whose fallback puts the quotes without
\* a trade first.
compareFnFallbackInverted(tradeA, tradeB, fromTokenPrice) ==
    IF fromTokenPrice = Null
    THEN IF tradeA.hasTrade THEN 1 ELSE -1
    ELSE comparedTo(getProviderRatio(tradeA, fromTokenPrice),
                    getProviderRatio(tradeB, fromTokenPrice))

\* The comparator handed to sort: tradeA => (tradeA?.trade ? -1 : 1) without
\* a price, the comparison of the two ratios with one.
compareFn(tradeA, tradeB, fromTokenPrice) ==
    IF fromTokenPrice = Null
    THEN IF tradeA.hasTrade THEN -1 ELSE 1
    ELSE comparedTo(getProviderRatio(tradeA, fromTokenPrice),
                    getProviderRatio(tradeB, fromTokenPrice))

\* Array.prototype.sort as the engine runs it on an array shorter than 64:
\* the first run is counted (and reversed if it descends), then the rest is
\* inserted by binary insertion.
RECURSIVE ReverseRange(_)
ReverseRange(array) ==
    IF array = <<>> THEN <<>>
    ELSE Append(ReverseRange(Tail(array)), Head(array))

RECURSIVE RunLength(_, _, _, _)
RunLength(array, idx, isDescending, fromTokenPrice) ==
    IF idx > Len(array) THEN Len(array)
    ELSE LET order == compareFn(array[idx], array[idx - 1], fromTokenPrice)
         IN  IF (isDescending /\ order >= 0) \/ (~isDescending /\ order < 0)
             THEN idx - 1
             ELSE RunLength(array, idx + 1, isDescending, fromTokenPrice)

CountAndMakeRun(array, fromTokenPrice) ==
    LET isDescending == compareFn(array[2], array[1], fromTokenPrice) < 0
        runLength == RunLength(array, 3, isDescending, fromTokenPrice)
    IN  [runLength |-> runLength,
         array |-> IF isDescending
                   THEN ReverseRange(SubSeq(array, 1, runLength))
                            \o SubSeq(array, runLength + 1, Len(array))
                   ELSE array]

RECURSIVE BinarySearch(_, _, _, _, _)
RECURSIVE BinarySearchLeftmost(_, _, _, _, _)
\* A faulty variant of the search that puts the pivot before its equals.
BinarySearchLeftmost(array, pivot, left, right, fromTokenPrice) ==
    IF left >= right THEN left
    ELSE LET mid == left + ((right - left) \div 2)
         IN  IF compareFn(pivot, array[mid + 1], fromTokenPrice) <= 0
             THEN BinarySearchLeftmost(array, pivot, left, mid, fromTokenPrice)
             ELSE BinarySearchLeftmost(array, pivot, mid + 1, right, fromTokenPrice)

\* left and right count from 0, as in the engine.
BinarySearch(array, pivot, left, right, fromTokenPrice) ==
    IF left >= right THEN left
    ELSE LET mid == left + ((right - left) \div 2)
         IN  IF compareFn(pivot, array[mid + 1], fromTokenPrice) < 0
             THEN BinarySearch(array, pivot, left, mid, fromTokenPrice)
             ELSE BinarySearch(array, pivot, mid + 1, right, fromTokenPrice)

RECURSIVE BinaryInsertionSort(_, _, _)
\* start: the position (from 1) of the first element after the sorted run.
BinaryInsertionSort(array, start, fromTokenPrice) ==
    IF start > Len(array) THEN array
    ELSE LET pivot == array[start]
             left == BinarySearch(array, pivot, 0, start - 1, fromTokenPrice)
             moved == SubSeq(array, 1, left) \o <<pivot>>
                          \o SubSeq(array, left + 1, start - 1)
                          \o SubSeq(array, start + 1, Len(array))
         IN  BinaryInsertionSort(moved, start + 1, fromTokenPrice)

sort(array, fromTokenPrice) ==
    IF Len(array) < 2 THEN array
    ELSE LET run == CountAndMakeRun(array, fromTokenPrice)
         IN  BinaryInsertionSort(run.array, run.runLength + 1, fromTokenPrice)

\* calculateBestTradeFromTokens after its await: both branches sort.
calculateBestTradeFromTokens(wrappedTrades, price) ==
    sort(wrappedTrades, FromTokenPrice(wrappedTrades, price))

\* The continuation of await Promise.all(calculationPromises), and of the
\* awaits above it up to calculateTrade, for the promises calcs of the
\* providers kept: Promise.all rejects with the first rejection, waits while
\* a promise is pending, and otherwise hands over the values in the order of
\* the providers.
PromiseAll(calcs, kept, price) ==
    LET values == [k \in 1..Len(kept) |-> calcs[kept[k]]]
        results == FilterNotNull(values)
        wrappedTrades == [k \in 1..Len(results) |-> WrappedTrade(results[k])]
    IN  IF \E k \in DOMAIN values : values[k].state = "rejected"
        THEN [pc |-> "rejected", error |-> "ProviderError", result |-> <<>>]
        ELSE IF \E k \in DOMAIN values : values[k].state \in {"none", "pending"}
        THEN [pc |-> "awaitCalculations", error |-> "none", result |-> <<>>]
        ELSE IF NoSuccessProviders(results)
        THEN [pc |-> "rejected", error |-> "NoSuccessProviders", result |-> <<>>]
        ELSE [pc |-> "resolved", error |-> "none",
              result |-> calculateBestTradeFromTokens(wrappedTrades, price)]

MgrInit ==
    /\ mgrPc = "idle"
    /\ mgrError = "none"
    /\ fromToken = [blockchain |-> "none", address |-> "none"]
    /\ toToken = [blockchain |-> "none", address |-> "none", isToken |-> FALSE]
    /\ disabledProviders = {}
    /\ networkCalls = 0
    /\ providers = <<>>
    /\ calculateCalls = [type \in ProviderTypes |-> 0]
    /\ fromPrice = 0
    /\ calculations = [type \in ProviderTypes |-> NotStarted(type)]
    /\ inFlight = [type \in ProviderTypes |-> FALSE]
    /\ mgrResult = <<>>

\* calculateTrade(from, fromAmount, to, {disabledProviders}) up to the await
\* of getPriceTokensFromInputTokens.
CalculateTrade(from, to, disabled) ==
    /\ mgrPc = "idle"
    /\ fromToken' = from
    /\ toToken' = to
    /\ disabledProviders' = disabled
    /\ IF RejectedByValidation(from, to)
       THEN /\ mgrPc' = "rejected"
            /\ mgrError' = "BlockchainsMustBeDifferent"
            /\ UNCHANGED networkCalls
       ELSE /\ mgrPc' = "awaitTokens"
            /\ networkCalls' = networkCalls + 1
            /\ UNCHANGED mgrError
    /\ UNCHANGED <<providers, calculateCalls, fromPrice, calculations, inFlight,
                   mgrResult>>
    /\ UNCHANGED notMgrVars

\* getPriceTokensFromInputTokens resolves with a source token of the given
\* price: calculateBestTradeFromTokens and calculateTradeFromTokens run
\* through the filter and the launch of calculate on every provider kept, up
\* to the await of Promise.all. The providers of throwers throw inside
\* calculate, which their arrow function catches at once.
PriceTokensResolve(price, throwers) ==
    LET kept == SelectedProviders(disabledProviders, fromToken, toToken)
        launched == IF NoProviders(kept) THEN {} ELSE Launched(kept)
        started == [type \in ProviderTypes |->
                       IF type \notin launched THEN calculations[type]
                       ELSE IF type \in throwers
                            THEN Captured(type, Failure("throws"))
                            ELSE Pending(type)]
        after == PromiseAll(started, kept, price)
    IN  /\ mgrPc = "awaitTokens"
        /\ throwers \subseteq launched
        /\ providers' = kept
        /\ fromPrice' = price
        /\ IF NoProviders(kept)
           THEN /\ mgrPc' = "rejected"
                /\ mgrError' = "NoProvidersForTrade"
                /\ UNCHANGED <<calculateCalls, calculations, inFlight, mgrResult>>
           ELSE /\ calculateCalls' =
                       [type \in ProviderTypes |->
                           IF type \in launched
                           THEN calculateCalls[type] + 1
                           ELSE calculateCalls[type]]
                /\ calculations' = started
                /\ inFlight' = [type \in ProviderTypes |->
                                   type \in launched \ throwers]
                /\ mgrPc' = after.pc
                /\ mgrError' = after.error
                /\ mgrResult' = after.result
        /\ UNCHANGED <<fromToken, toToken, disabledProviders, networkCalls>>
        /\ UNCHANGED notMgrVars

\* getPriceTokensFromInputTokens rejects: calculateTrade rejects with it.
PriceTokensReject ==
    /\ mgrPc = "awaitTokens"
    /\ mgrPc' = "rejected"
    /\ mgrError' = "TokenResolutionError"
    /\ UNCHANGED <<fromToken, toToken, disabledProviders, networkCalls, providers,
                   calculateCalls, fromPrice, calculations, inFlight, mgrResult>>
    /\ UNCHANGED notMgrVars

\* A faulty variant of the settling that collects the promises in the order
\* of their completion: the provider that settles moves to the end.
CalculationSettlesInCompletionOrder(type, settlement) ==
    LET calcs == [calculations EXCEPT ![type] = Captured(type, settlement)]
        order == FilterSeq(providers, {providers[k] : k \in DOMAIN providers} \ {type})
                     \o <<type>>
        after == PromiseAll(calcs, order, fromPrice)
    IN  /\ calculations[type].state = "pending"
        /\ inFlight[type]
        /\ calculations' = calcs
        /\ providers' = order
        /\ inFlight' = [inFlight EXCEPT ![type] = FALSE]
        /\ mgrPc' = after.pc
        /\ mgrError' = after.error
        /\ mgrResult' = after.result
        /\ UNCHANGED <<fromToken, toToken, disabledProviders, networkCalls,
                       calculateCalls, fromPrice>>
        /\ UNCHANGED notMgrVars

\* The promise of one provider's calculate settles before the timer of its
\* pTimeout: the arrow function captures it, and when it was the last one
\* pending the continuation of Promise.all runs.
CalculationSettles(type, settlement) ==
    LET calcs == [calculations EXCEPT ![type] = Captured(type, settlement)]
        after == PromiseAll(calcs, providers, fromPrice)
    IN  /\ calculations[type].state = "pending"
        /\ inFlight[type]
        /\ calculations' = calcs
        /\ inFlight' = [inFlight EXCEPT ![type] = FALSE]
        /\ mgrPc' = after.pc
        /\ mgrError' = after.error
        /\ mgrResult' = after.result
        /\ UNCHANGED <<fromToken, toToken, disabledProviders, networkCalls,
                       providers, calculateCalls, fromPrice>>
        /\ UNCHANGED notMgrVars

\* A faulty variant of the timeout that invokes calculate once more.
CalculationTimeoutRetries(type) ==
    /\ calculations[type].state = "pending"
    /\ inFlight[type]
    /\ calculateCalls[type] < 2
    /\ calculateCalls' = [calculateCalls EXCEPT ![type] = calculateCalls[type] + 1]
    /\ UNCHANGED <<mgrPc, mgrError, fromToken, toToken, disabledProviders,
                   networkCalls, providers, fromPrice, calculations, inFlight,
                   mgrResult>>
    /\ UNCHANGED notMgrVars

\* The timer of one provider's pTimeout fires while its calculate is still
\* pending: the arrow function catches the timeout error and returns null;
\* the promise of calculate stays in flight.
CalculationTimeout(type) ==
    LET calcs == [calculations EXCEPT ![type] = Captured(type, TimedOut)]
        after == PromiseAll(calcs, providers, fromPrice)
    IN  /\ calculations[type].state = "pending"
        /\ inFlight[type]
        /\ calculations' = calcs
        /\ mgrPc' = after.pc
        /\ mgrError' = after.error
        /\ mgrResult' = after.result
        /\ UNCHANGED <<fromToken, toToken, disabledProviders, networkCalls,
                       providers, calculateCalls, fromPrice, inFlight>>
        /\ UNCHANGED notMgrVars

\* A faulty variant of the late settling that still hands the wrapped trade
\* over to the result.
LateSettleAppends(type, settlement) ==
    /\ calculations[type].outcome = "timeout"
    /\ inFlight[type]
    /\ inFlight' = [inFlight EXCEPT ![type] = FALSE]
    /\ mgrResult' = IF settlement.kind = "returns"
                    THEN Append(mgrResult, WrappedTrade(Captured(type, settlement)))
                    ELSE mgrResult
    /\ UNCHANGED <<mgrPc, mgrError, fromToken, toToken, disabledProviders,
                   networkCalls, providers, calculateCalls, fromPrice,
                   calculations>>
    /\ UNCHANGED notMgrVars

\* The promise of a calculate that timed out settles afterwards, in any of
\* the ways of Settlements: pTimeout has rejected already and nothing
\* listens to the settlement any more.
LateSettle(type, settlement) ==
    /\ calculations[type].outcome = "timeout"
    /\ inFlight[type]
    /\ inFlight' = [inFlight EXCEPT ![type] = FALSE]
    /\ UNCHANGED <<mgrPc, mgrError, fromToken, toToken, disabledProviders,
                   networkCalls, providers, calculateCalls, fromPrice,
                   calculations, mgrResult>>
    /\ UNCHANGED notMgrVars

\* The selection stage on its own, over every request.
MgrNext ==
    \/ \E from \in FromTokens : \E to \in ToTokens :
         \E disabled \in SUBSET ProviderTypes : CalculateTrade(from, to, disabled)
    \/ \E price \in 1..MaxPrice : \E throwers \in SUBSET ProviderTypes :
         PriceTokensResolve(price, throwers)
    \/ PriceTokensReject

\* The requests of the fan-out: one source token, a destination on a chain
\* Celer supports and on one it does not.
FanOutFromTokens == [blockchain : {"ETH"}, address : {"0xTokenA"}]
FanOutToTokens == [blockchain : {"BSC", "NEAR"}, address : {"0xTokenB"},
                   isToken : {TRUE}]

FanOutNext ==
    \/ \E from \in FanOutFromTokens : \E to \in FanOutToTokens :
         \E disabled \in SUBSET ProviderTypes : CalculateTrade(from, to, disabled)
    \/ \E price \in 1..MaxPrice : \E throwers \in SUBSET ProviderTypes :
         PriceTokensResolve(price, throwers)
    \/ PriceTokensReject
    \/ \E type \in ProviderTypes : \E settlement \in Settlements(type) :
         CalculationSettles(type, settlement)
    \/ \E type \in ProviderTypes : CalculationTimeout(type)
    \/ \E type \in ProviderTypes : \E settlement \in Settlements(type) :
         LateSettle(type, settlement)


\* ------------------------------------------------------------- getTransactionByHash
\* const limit = attemptsLimit || 10
DefaultAttemptsLimit == 10
\* const timeoutMs = delay || 500
DefaultDelay == 500

\* x || d for a number x: d when x is undefined (Null) or 0.
OrDefault(x, d) == IF x = Null \/ x = 0 THEN d ELSE x

\* The arguments a caller hands over; Null stands for an omitted argument.
TxArguments ==
    [attempt : {Null} \cup 0..MaxAttempts,
     attemptsLimit : {Null} \cup 0..MaxAttempts,
     delay : {Null, 100}]

\* What web3.eth.getTransaction resolves with: null while the transaction is
\* not known to the node.
TransactionLookups == {"null", "0xTransaction"}

TxInit ==
    /\ txPc = "idle"
    /\ txArgs = [attempt |-> Null, attemptsLimit |-> Null, delay |-> Null]
    /\ txAttempt = 0
    /\ txLimit = 0
    /\ txTimeoutMs = 0
    /\ txLookups = 0
    /\ txResult = "none"

\* The body of getTransactionByHash(hash, attempt, attemptsLimit, delay) up
\* to its await: the defaults, the check of the limit, the lookup.
TxCallBody(attempt, attemptsLimit, delay) ==
    /\ txAttempt' = OrDefault(attempt, 0)
    /\ txLimit' = OrDefault(attemptsLimit, DefaultAttemptsLimit)
    /\ txTimeoutMs' = OrDefault(delay, DefaultDelay)
    /\ IF txAttempt' >= txLimit'
       THEN /\ txPc' = "resolved"
            /\ txResult' = "null"
            /\ UNCHANGED txLookups
       ELSE /\ txPc' = "awaitGetTransaction"
            /\ txLookups' = txLookups + 1
            /\ UNCHANGED txResult

\* The call of the caller.
GetTransactionByHash(args) ==
    /\ txPc = "idle"
    /\ txArgs' = args
    /\ TxCallBody(args.attempt, args.attemptsLimit, args.delay)
    /\ UNCHANGED notTxVars

\* web3.eth.getTransaction resolves: a transaction is returned, null arms
\* the timer of the next attempt.
GetTransactionResolve(transaction) ==
    /\ txPc = "awaitGetTransaction"
    /\ IF transaction = "null"
       THEN txPc' = "awaitTimer" /\ UNCHANGED txResult
       ELSE txPc' = "resolved" /\ txResult' = transaction
    /\ UNCHANGED <<txArgs, txAttempt, txLimit, txTimeoutMs, txLookups>>
    /\ UNCHANGED notTxVars

\* web3.eth.getTransaction rejects: the operation rejects with it.
GetTransactionReject ==
    /\ txPc = "awaitGetTransaction"
    /\ txPc' = "rejected"
    /\ UNCHANGED <<txArgs, txAttempt, txLimit, txTimeoutMs, txLookups, txResult>>
    /\ UNCHANGED notTxVars

\* A faulty variant of RetryTimerFires: the retry is made with the same
\* attempt.
RetryTimerFiresSameAttempt ==
    /\ txPc = "awaitTimer"
    /\ TxCallBody(txAttempt, Null, Null)
    /\ UNCHANGED txArgs
    /\ UNCHANGED notTxVars

\* The timer fires: this.getTransactionByHash(hash, attempt + 1), a call
\* without attemptsLimit and delay, whose outcome is the outcome of the
\* operation.
RetryTimerFires ==
    /\ txPc = "awaitTimer"
    /\ TxCallBody(txAttempt + 1, Null, Null)
    /\ UNCHANGED txArgs
    /\ UNCHANGED notTxVars

TxNext ==
    \/ \E args \in TxArguments : GetTransactionByHash(args)
    \/ \E transaction \in TransactionLookups : GetTransactionResolve(transaction)
    \/ GetTransactionReject
    \/ RetryTimerFires


\* ------------------------------------------------------------- healthCheck
\* healthCheck(timeoutMs: number = 4000)
DefaultHealthcheckTimeoutMs == 4000

\* The blockchains a Web3Public is created for.
Web3Blockchains == {"ETH", "BSC", "POLYGON", "HARMONY"}

\* What a healthcheck contract method can answer.
NodeAnswers == {"RBC", "BRBC", "USDT", ""}

\* The expected value of a healthcheck entry: one of the answers.
ExpectedAnswers == {"RBC", "BRBC", "USDT"}

\* The healthcheck table seen from healthCheck: "none" when
\* isBlockchainHealthcheckAvailable(blockchainName) is false, else the
\* expected value of HEALTHCHECK[blockchainName].
HealthcheckEntries == {"none"} \cup ExpectedAnswers

isBlockchainHealthcheckAvailable(healthcheck) == healthcheck # "none"

\* The timeoutMs of a call: the default when the argument is omitted.
HealthcheckTimeouts == {DefaultHealthcheckTimeoutMs} \cup 1..MaxTimeoutMs

HcInit ==
    /\ hcPc = "idle"
    /\ hcBlockchain = "ETH"
    /\ hcHealthcheck = "none"
    /\ hcTimeoutMs = DefaultHealthcheckTimeoutMs
    /\ hcOutcome = "none"
    /\ hcAnswer = "none"
    /\ hcResult = "none"

\* What healthCheck returns when no healthcheck is defined.
UndefinedHealthcheckResult == "true"

\* healthCheck(timeoutMs) up to its await.
HealthCheck(blockchain, healthcheck, timeoutMs) ==
    /\ hcPc = "idle"
    /\ hcBlockchain' = blockchain
    /\ hcHealthcheck' = healthcheck
    /\ hcTimeoutMs' = timeoutMs
    /\ IF ~isBlockchainHealthcheckAvailable(healthcheck)
       THEN hcPc' = "resolved" /\ hcResult' = UndefinedHealthcheckResult
       ELSE hcPc' = "awaitCall" /\ UNCHANGED hcResult
    /\ UNCHANGED <<hcOutcome, hcAnswer>>
    /\ UNCHANGED notHcVars

\* The contract call answers within timeoutMs: true for the expected value,
\* else HealthcheckError, caught, false.
HealthcheckCallAnswers(answer) ==
    /\ hcPc = "awaitCall"
    /\ hcOutcome' = "answered"
    /\ hcAnswer' = answer
    /\ hcResult' = IF answer # hcHealthcheck THEN "false" ELSE "true"
    /\ hcPc' = "resolved"
    /\ UNCHANGED <<hcBlockchain, hcHealthcheck, hcTimeoutMs>>
    /\ UNCHANGED notHcVars

\* A faulty variant of HealthcheckCallFails: the rejection of the contract
\* call is not caught.
HealthcheckCallFailsRejects ==
    /\ hcPc = "awaitCall"
    /\ hcOutcome' = "failed"
    /\ hcPc' = "rejected"
    /\ UNCHANGED <<hcBlockchain, hcHealthcheck, hcTimeoutMs, hcAnswer, hcResult>>
    /\ UNCHANGED notHcVars

\* The contract call rejects: caught, false.
HealthcheckCallFails ==
    /\ hcPc = "awaitCall"
    /\ hcOutcome' = "failed"
    /\ hcResult' = "false"
    /\ hcPc' = "resolved"
    /\ UNCHANGED <<hcBlockchain, hcHealthcheck, hcTimeoutMs, hcAnswer>>
    /\ UNCHANGED notHcVars

\* pTimeout rejects with TimeoutError after timeoutMs: caught, false.
HealthcheckCallTimesOut ==
    /\ hcPc = "awaitCall"
    /\ hcOutcome' = "timeout"
    /\ hcResult' = "false"
    /\ hcPc' = "resolved"
    /\ UNCHANGED <<hcBlockchain, hcHealthcheck, hcTimeoutMs, hcAnswer>>
    /\ UNCHANGED notHcVars

HcNext ==
    \/ \E blockchain \in Web3Blockchains, healthcheck \in HealthcheckEntries,
          timeoutMs \in HealthcheckTimeouts :
         HealthCheck(blockchain, healthcheck, timeoutMs)
    \/ \E answer \in NodeAnswers : HealthcheckCallAnswers(answer)
    \/ HealthcheckCallFails
    \/ HealthcheckCallTimesOut

\* ------------------------------------------------------------- web3BatchRequest
\* The parameters of one call.
CallParams == {"p1", "p2"}

\* The lists of calls handed to web3BatchRequest, as the parameters of each.
Web3BatchCalls == UNION {[1..n -> CallParams] : n \in 0..MaxLen}

\* What a callback can be fired with as result.
CallResults == {"r1", "r2"}

PendingPromise == [state |-> "pending", value |-> "none"]

WbInit ==
    /\ wbPc = "idle"
    /\ wbCalls = <<>>
    /\ wbPromises = <<>>
    /\ wbFired = <<>>
    /\ wbResult = <<>>

\* Promise.all over the promises: fulfilled once every promise is.
AllFulfilled(promises) ==
    \A i \in DOMAIN promises : promises[i].state = "fulfilled"

\* web3BatchRequest(calls, callsParams): one promise per call, the batch
\* executed, Promise.all of the promises returned; Promise.all of no
\* promise is fulfilled with the empty array.
Web3BatchRequest(calls) ==
    /\ wbPc = "idle"
    /\ wbCalls' = calls
    /\ wbPromises' = [i \in DOMAIN calls |-> PendingPromise]
    /\ wbFired' = <<>>
    /\ IF Len(calls) = 0
       THEN wbPc' = "resolved" /\ wbResult' = <<>>
       ELSE wbPc' = "executing" /\ UNCHANGED wbResult
    /\ UNCHANGED notWbVars

\* A faulty variant of CallbackFires: the result array is filled in the
\* order the callbacks fire.
CallbackFiresInFiringOrder(i, error, callResult) ==
    /\ wbPc \in {"executing", "rejected"}
    /\ i \in DOMAIN wbPromises
    /\ wbPromises[i].state = "pending"
    /\ wbPromises' = [wbPromises EXCEPT ![i] =
         IF error THEN [state |-> "rejected", value |-> "error"]
         ELSE [state |-> "fulfilled", value |-> callResult]]
    /\ wbFired' = Append(wbFired, i)
    /\ IF wbPc = "rejected"
       THEN UNCHANGED <<wbPc, wbResult>>
       ELSE IF error
       THEN wbPc' = "rejected" /\ UNCHANGED wbResult
       ELSE IF AllFulfilled(wbPromises')
       THEN /\ wbPc' = "resolved"
            /\ wbResult' = [k \in DOMAIN wbPromises |-> wbPromises'[wbFired'[k]].value]
       ELSE UNCHANGED <<wbPc, wbResult>>
    /\ UNCHANGED wbCalls
    /\ UNCHANGED notWbVars

\* The callback of call i fires: error ? reject(error) : resolve(result).
\* The first rejection rejects the Promise.all, the last fulfilment
\* fulfils it with the values of the promises in the order of the promises.
CallbackFires(i, error, callResult) ==
    /\ wbPc \in {"executing", "rejected"}
    /\ i \in DOMAIN wbPromises
    /\ wbPromises[i].state = "pending"
    /\ wbPromises' = [wbPromises EXCEPT ![i] =
         IF error THEN [state |-> "rejected", value |-> "error"]
         ELSE [state |-> "fulfilled", value |-> callResult]]
    /\ wbFired' = Append(wbFired, i)
    /\ IF wbPc = "rejected"
       THEN UNCHANGED <<wbPc, wbResult>>
       ELSE IF error
       THEN wbPc' = "rejected" /\ UNCHANGED wbResult
       ELSE IF AllFulfilled(wbPromises')
       THEN /\ wbPc' = "resolved"
            /\ wbResult' = [k \in DOMAIN wbPromises |-> wbPromises'[k].value]
       ELSE UNCHANGED <<wbPc, wbResult>>
    /\ UNCHANGED wbCalls
    /\ UNCHANGED notWbVars

WbNext ==
    \/ \E calls \in Web3BatchCalls : Web3BatchRequest(calls)
    \/ \E i \in 1..MaxLen, error \in BOOLEAN, callResult \in CallResults :
         CallbackFires(i, error, callResult)


\* ------------------------------------------------------------- callForTokenInfo
\* The callers of callForTokenInfo, one call each.
Callers == {1, 2}

\* The default of tokenFields, and two narrower requests.
DefaultTokenFields == <<"decimals", "symbol", "name">>
TokenFieldLists == {DefaultTokenFields, <<"symbol">>, <<"name", "decimals">>}

\* The key of the cache: (token address, requested fields).
TokenKeys == [tokenAddress : TokenAddresses, tokenFields : TokenFieldLists]

\* What callContractMethod resolves with for one field, "error" for a
\* rejection.
FieldValues == {"v1", "v2"}
FieldOutcomes == FieldValues \cup {"error"}

NoTokenInfo == [field \in {} |-> "none"]

TiInit ==
    /\ tiPc = [caller \in Callers |-> "idle"]
    /\ tiKey = [caller \in Callers |->
         [tokenAddress |-> "0xTokenA", tokenFields |-> DefaultTokenFields]]
    /\ tiFetch = [caller \in Callers |-> 0]
    /\ tiJoined = [caller \in Callers |-> {}]
    /\ tiResult = [caller \in Callers |-> NoTokenInfo]
    /\ tiCache = [key \in TokenKeys |-> 0]
    /\ tiFetches = <<>>

\* tokenFieldsResults.reduce((acc, field, index) =>
\*     ({ ...acc, [tokenFields[index]]: field }), {})
TokenInfo(tokenFields, tokenFieldsResults) ==
    [field \in {tokenFields[i] : i \in DOMAIN tokenFields} |->
        LET last == CHOOSE i \in DOMAIN tokenFields :
                        /\ tokenFields[i] = field
                        /\ \A j \in DOMAIN tokenFields : tokenFields[j] = field => j <= i
        IN  tokenFieldsResults[last]]

\* A faulty variant of PCacheHolds: the cache is never consulted.
PCacheNeverHolds(cache, key) == FALSE

\* The cache holds an entry for the key: the promise of a fetch, outstanding
\* or settled.
PCacheHolds(cache, key) == cache[key] # 0

\* callForTokenInfo(tokenAddress, tokenFields) under the cache: a call for
\* a key the cache holds attaches to the fetch of the entry, any other call
\* runs the body, which starts one remote fetch of the requested fields.
CallForTokenInfo(caller, key) ==
    /\ tiPc[caller] = "idle"
    /\ tiKey' = [tiKey EXCEPT ![caller] = key]
    /\ tiJoined' = [tiJoined EXCEPT ![caller] =
         {other \in Callers : tiPc[other] = "waiting" /\ tiKey[other] = key}]
    /\ IF PCacheHolds(tiCache, key)
       THEN LET fetch == tiFetches[tiCache[key]]
            IN  /\ tiFetch' = [tiFetch EXCEPT ![caller] = tiCache[key]]
                /\ tiPc' = [tiPc EXCEPT ![caller] =
                     IF fetch.state = "pending" THEN "waiting" ELSE fetch.state]
                /\ tiResult' = [tiResult EXCEPT ![caller] = fetch.value]
                /\ UNCHANGED <<tiCache, tiFetches>>
       ELSE /\ tiFetches' = Append(tiFetches,
                 [key |-> key, state |-> "pending", value |-> NoTokenInfo])
            /\ tiCache' = [tiCache EXCEPT ![key] = Len(tiFetches) + 1]
            /\ tiFetch' = [tiFetch EXCEPT ![caller] = Len(tiFetches) + 1]
            /\ tiPc' = [tiPc EXCEPT ![caller] = "waiting"]
            /\ UNCHANGED tiResult
    /\ UNCHANGED notTiVars

\* The remote calls of one fetch settle: Promise.all rejects when one of
\* them does, else the body returns the token info; every caller that waits
\* for the fetch gets its outcome.
TokenInfoFetchSettles(n, tokenFieldsResults) ==
    /\ n \in DOMAIN tiFetches
    /\ tiFetches[n].state = "pending"
    /\ DOMAIN tokenFieldsResults = DOMAIN tiFetches[n].key.tokenFields
    /\ LET rejected == \E i \in DOMAIN tokenFieldsResults : tokenFieldsResults[i] = "error"
           state == IF rejected THEN "rejected" ELSE "resolved"
           value == IF rejected THEN NoTokenInfo
                    ELSE TokenInfo(tiFetches[n].key.tokenFields, tokenFieldsResults)
       IN  /\ tiFetches' = [tiFetches EXCEPT ![n] =
                 [key |-> tiFetches[n].key, state |-> state, value |-> value]]
           /\ tiPc' = [caller \in Callers |->
                 IF tiPc[caller] = "waiting" /\ tiFetch[caller] = n
                 THEN state ELSE tiPc[caller]]
           /\ tiResult' = [caller \in Callers |->
                 IF tiPc[caller] = "waiting" /\ tiFetch[caller] = n
                 THEN value ELSE tiResult[caller]]
    /\ UNCHANGED <<tiKey, tiFetch, tiJoined, tiCache>>
    /\ UNCHANGED notTiVars

\* The policy of the cache evicts the entry of a settled fetch.
PCacheEvicts(key) ==
    /\ tiCache[key] # 0
    /\ tiFetches[tiCache[key]].state # "pending"
    /\ tiCache' = [tiCache EXCEPT ![key] = 0]
    /\ UNCHANGED <<tiPc, tiKey, tiFetch, tiJoined, tiResult, tiFetches>>
    /\ UNCHANGED notTiVars

TiNext ==
    \/ \E caller \in Callers, key \in TokenKeys : CallForTokenInfo(caller, key)
    \/ \E n \in 1..Cardinality(Callers), len \in 1..Len(DefaultTokenFields) :
         \E tokenFieldsResults \in [1..len -> FieldOutcomes] :
           TokenInfoFetchSettles(n, tokenFieldsResults)
    \/ \E key \in TokenKeys : PCacheEvicts(key)

\* ------------------------------------------------------------- getCrossChainContract
\* The keys of crossChainContractsData.
CrossChainSupportedBlockchains ==
    {"ETH", "BSC", "POLYGON", "AVALANCHE", "MOONRIVER", "FANTOM"}

\* crossChainSupportedBlockchains.reduce((acc, blockchain) =>
\*     ({ ...acc, [blockchain]: null }), {})
CcInit ==
    /\ ccContracts = [blockchain \in CrossChainSupportedBlockchains |-> Null]
    /\ ccConstructed = [blockchain \in CrossChainSupportedBlockchains |-> 0]
    /\ ccInstances = 0
    /\ ccFirst = [blockchain \in CrossChainSupportedBlockchains |-> Null]
    /\ ccLast = [blockchain |-> "none", returned |-> Null]
    /\ ccCalls = 0

\* A step of getCrossChainContract(blockchain) that constructs a
\* ContractData, stores it and returns it.
ConstructContract(blockchain) ==
    /\ ccInstances' = ccInstances + 1
    /\ ccConstructed' = [ccConstructed EXCEPT ![blockchain] = @ + 1]
    /\ ccContracts' = [ccContracts EXCEPT ![blockchain] = ccInstances']
    /\ ccLast' = [blockchain |-> blockchain, returned |-> ccInstances']

\* What every call of getCrossChainContract(blockchain) records.
RecordCall(blockchain) ==
    /\ ccCalls' = ccCalls + 1
    /\ ccFirst' = [ccFirst EXCEPT ![blockchain] =
         IF @ = Null THEN ccLast'.returned ELSE @]

\* A faulty variant of GetCrossChainContract: the stored entry is not
\* looked at.
GetCrossChainContractAlwaysConstructs(blockchain) ==
    /\ ccCalls < MaxCalls
    /\ ConstructContract(blockchain)
    /\ RecordCall(blockchain)
    /\ UNCHANGED notCcVars

\* getCrossChainContract(blockchain): the stored ContractData when there is
\* one, else a new one, stored for the blockchain.
GetCrossChainContract(blockchain) ==
    /\ ccCalls < MaxCalls
    /\ IF ccContracts[blockchain] # Null
       THEN /\ ccLast' = [blockchain |-> blockchain, returned |-> ccContracts[blockchain]]
            /\ UNCHANGED <<ccContracts, ccConstructed, ccInstances>>
       ELSE ConstructContract(blockchain)
    /\ RecordCall(blockchain)
    /\ UNCHANGED notCcVars

CcNext ==
    \E blockchain \in CrossChainSupportedBlockchains : GetCrossChainContract(blockchain)

\* ------------------------------------------------------------- batch claims
\* The outcome of one submitted rpc call at the node: null for a node-side
\* error, the node's result otherwise.
CallOutcome(rpcCall) ==
    IF NodeReverts(rpcCall.params) THEN Null ELSE NodeResult(rpcCall.params)

\* The rpc calls an invocation submitted (batchEstimatedGas builds them).
Submitted(s) ==
    IF entry[s] = "batchEstimatedGas" THEN GasRpcCallsData(callsData[s])
    ELSE callsData[s]

\* Position (1-based) of the call that was given correlation id `id`.
PositionOfId(s, id) == CHOOSE k \in DOMAIN batch[s] : batch[s][k].id = id

CompleteResponse(s) == transport[s] = "ok" /\ Len(response[s]) = Len(batch[s])

\* C1: for every batch of N calls submitted to rpcBatchRequest and every
\* arrival order of the N response entries, position i of the resolved
\* sequence holds the outcome of submitted call i.
C1_OrderPreserved ==
    \A s \in Slots :
        (entry[s] = "rpcBatchRequest" /\ pc[s] = "resolved" /\ CompleteResponse(s))
        => /\ Len(result[s]) = Len(callsData[s])
           /\ \A i \in DOMAIN callsData[s] : result[s][i] = CallOutcome(callsData[s][i])

\* A resolved rpcBatchRequest whose two entries arrived in reverse order and
\* carry different outcomes.
C1_Witness ==
    \E s \in Slots :
        /\ entry[s] = "rpcBatchRequest" /\ pc[s] = "resolved" /\ CompleteResponse(s)
        /\ Len(response[s]) = MaxLen
        /\ response[s][1].id > response[s][2].id
        /\ result[s][1] # result[s][2]

\* C2: for every response the interface allows (no longer than the request,
\* any order, correlated by id) both batch operations return one entry per
\* submitted call, each at the position of the call whose id it carries.
C2_OneEntryPerCall ==
    \A s \in Slots :
        (pc[s] = "resolved" /\ transport[s] = "ok")
        => /\ Len(result[s]) = Len(callsData[s])
           /\ \A k \in DOMAIN response[s] :
                LET i == PositionOfId(s, response[s][k].id)
                IN  result[s][i] = IF response[s][k].error THEN Null
                                   ELSE response[s][k].result

\* C3: a failure of the network call itself reaches the caller as an error
\* of the whole batch and is never resolved as a result sequence.
C3_TransportFailurePropagates ==
    \A s \in Slots : transport[s] = "failed" => pc[s] = "rejected"

\* C4: in rpcBatchRequest a response entry signalling a node-side error
\* yields null at the position of its call, and every other entry of the
\* response yields its own result at the position of its call.
C4_ErrorEntryIsolated ==
    \A s \in Slots :
        (entry[s] = "rpcBatchRequest" /\ pc[s] = "resolved")
        => \A k \in DOMAIN response[s] :
             response[s][k].error
             => /\ PositionOfId(s, response[s][k].id) \in DOMAIN result[s]
                /\ result[s][PositionOfId(s, response[s][k].id)] = Null
                /\ \A j \in DOMAIN response[s] :
                     ~response[s][j].error
                     => /\ PositionOfId(s, response[s][j].id) \in DOMAIN result[s]
                        /\ result[s][PositionOfId(s, response[s][j].id)]
                               = response[s][j].result

\* C5: batchEstimatedGas returns the gas value of every call that succeeds
\* at the node, whatever way the other calls of the batch fail (a node-side
\* revert, or a failure while encoding another call). Transport failures and
\* truncated responses are left out: they are not the failures meant here.
C5_FailureIsolation ==
    \A s \in Slots :
        ( /\ entry[s] = "batchEstimatedGas"
          /\ pc[s] \in {"resolved", "rejected"}
          /\ transport[s] # "failed"
          /\ transport[s] = "ok" => CompleteResponse(s) )
        => \A i \in DOMAIN callsData[s] :
             (Encodable(callsData[s][i]) /\ callsData[s][i].params \notin RevertingParams)
             => /\ pc[s] = "resolved"
                /\ result[s][i] # Null
                /\ result[s][i] = CallOutcome(GasRpcCallsData(callsData[s])[i])

BatchIds(s) == {batch[s][k].id : k \in DOMAIN batch[s]}

\* C6: correlation ids are unique within a batch, and two batches that are
\* in flight at the same time never share a correlation id.
C6_IdsNeverShared ==
    /\ \A s \in Slots : \A a, b \in DOMAIN batch[s] :
            a # b => batch[s][a].id # batch[s][b].id
    /\ \A s, t \in Slots :
            (s # t /\ pc[s] = "awaitPost" /\ pc[t] = "awaitPost")
            => BatchIds(s) \cap BatchIds(t) = {}

\* ------------------------------------------------------------- multicall claims
\* Position (1-based) in the multicall set of the call made for the address
\* at 1-based position i of the list as passed in (i is not the extracted
\* native entry).
CallPosition(i) ==
    IF indexOfNativeCoin # -1 /\ i > indexOfNativeCoin + 1 THEN i - 1 ELSE i

\* The balance the queries returned for the address at position i of the
\* list as passed in: the native balance for a native entry, the multicall
\* sub-call's balance for a token.
BalanceForAddress(i) ==
    IF isNativeAddress(passedIn[i]) THEN nativeBalance
    ELSE BalancesOf(outputs)[CallPosition(i)]

\* C7: for every token address list given to getTokensBalances the returned
\* sequence has the length of the list as passed in and entry i is the
\* balance for address i, the native balance standing where the native
\* address stood, whichever of the two queries completes first.
C7_BalancesAlignedWithInput ==
    (mcEntry = "getTokensBalances" /\ mcPc = "resolved")
    => /\ Len(mcResult) = Len(passedIn)
       /\ \A i \in DOMAIN passedIn : mcResult[i] = BalanceForAddress(i)

\* C8: every native entry of the input is extracted before the multicall set
\* is built: no call of the multicall set targets the native address, and
\* every native entry is answered by the independent balance query.
C8_NativeEntriesExtracted ==
    mcEntry = "getTokensBalances"
    => /\ \A k \in DOMAIN aggregateCalls :
            \A c \in DOMAIN aggregateCalls[k].calls :
                ~isNativeAddress(aggregateCalls[k].calls[c].target)
       /\ mcPc = "resolved"
            => \A i \in DOMAIN passedIn :
                 isNativeAddress(passedIn[i]) => mcResult[i] = nativeBalance

\* C9: multicallContractMethod issues all sub-calls as one tryAggregate call
\* with requireSuccess = false and returns one entry per argument list in
\* input order; entry i has the success flag of sub-call i and a null output
\* exactly when sub-call i failed; a failing sub-call neither changes another
\* entry nor makes the operation reject.
C9_MulticallIsolation ==
    mcEntry = "multicallContractMethod"
    => /\ (multicallPromise = "done" /\ methodName \in McAbiWithOutputs)
            => mcPc = "resolved"
       /\ mcPc = "resolved"
            => /\ Len(aggregateCalls) = 1
               /\ aggregateCalls[1].requireSuccess = FALSE
               /\ Len(aggregateCalls[1].calls) = Len(methodCallsArguments)
               /\ \A i \in DOMAIN methodCallsArguments :
                    aggregateCalls[1].calls[i].callData
                        = <<methodName, methodCallsArguments[i]>>
               /\ Len(mcResult) = Len(methodCallsArguments)
               /\ \A i \in DOMAIN mcResult :
                    /\ mcResult[i].success = outputs[i].success
                    /\ (mcResult[i].output = Null) <=> ~outputs[i].success
                    /\ outputs[i].success
                         => mcResult[i].output = outputs[i].returnData[2]

\* A resolved multicallContractMethod whose first sub-call failed and whose
\* second sub-call succeeded.
C9_Witness ==
    /\ mcEntry = "multicallContractMethod" /\ mcPc = "resolved"
    /\ Len(mcResult) = MaxLen
    /\ ~outputs[1].success /\ mcResult[1].output = Null
    /\ outputs[2].success /\ mcResult[2].output # Null

\* ------------------------------------------------------------- manager claims
\* C10: calculateTrade called with an identical source and destination
\* chain and token is rejected by the validation before any network call is
\* issued and before any provider's calculate is invoked, whether toToken is
\* a Token instance or a plain {address, blockchain} object.
C10_IdenticalTokensRejected ==
    ( /\ mgrPc # "idle"
      /\ fromToken.blockchain = toToken.blockchain
      /\ fromToken.address = toToken.address )
    => /\ mgrPc = "rejected"
       /\ mgrError = "BlockchainsMustBeDifferent"
       /\ networkCalls = 0
       /\ \A type \in ProviderTypes : calculateCalls[type] = 0

\* ------------------------------------------------------------- fan-out claims
\* The provider types kept by the filter, once the fan-out has run.
Selected == {providers[k] : k \in DOMAIN providers}
ResultTypes == {mgrResult[k].tradeType : k \in DOMAIN mgrResult}
\* Every promise of calculationPromises has settled.
AllSettled ==
    /\ providers # <<>>
    /\ \A type \in Selected : calculations[type].state \in {"null", "wrapped"}
\* The outcomes that give the arrow function null.
NullOutcomes == {"returnsNull", "rejects", "throws", "timeout"}

EveryOutcomeKnown ==
    providers # <<>> /\ \A type \in Selected : calculations[type].outcome # "none"

\* What the orchestrator recorded for a provider that returned a wrapped
\* object in time is that object: it is in the resolved sequence, and the
\* calculation waits (and does not fail) until every outcome is known.
RecordedAsReturned(type) ==
    /\ mgrPc = (IF EveryOutcomeKnown THEN "resolved" ELSE "awaitCalculations")
    /\ mgrPc = "resolved"
       => \E k \in DOMAIN mgrResult :
            mgrResult[k] = WrappedTrade(calculations[type])

\* C13: a provider whose calculate loses the race against the timeout is
\* excluded from the result, and every other provider's recorded outcome is
\* its own: the timeout of one provider never fails the calculation and
\* never removes another provider's quote.
C13_TimeoutIsolated ==
    \A slow \in Selected :
        calculations[slow].outcome = "timeout" =>
            /\ slow \notin ResultTypes
            /\ mgrPc = "rejected" => mgrError = "NoSuccessProviders"
            /\ \A other \in Selected \ {slow} :
                 calculations[other].outcome = "returns"
                 => RecordedAsReturned(other)

\* One provider timed out, another quoted, and the resolved sequence is the
\* quote alone.
C13_Witness ==
    /\ mgrPc = "resolved"
    /\ Len(mgrResult) = 1
    /\ mgrResult[1].hasTrade
    /\ \E slow \in Selected : calculations[slow].outcome = "timeout"
    /\ Cardinality(Selected) = 2

\* C14: a provider returning null, or raising an error (synchronously or
\* through its promise), becomes an excluded non-fatal outcome: the error
\* never escapes calculateTrade on its own, every other provider keeps its
\* own outcome, and calculateTrade succeeds whenever at least one other
\* provider succeeds.
C14_ProviderErrorIsolated ==
    \A failed \in Selected :
        calculations[failed].outcome \in {"returnsNull", "rejects", "throws"} =>
            /\ calculations[failed].state = "null"
            /\ failed \notin ResultTypes
            /\ mgrPc = "rejected" => mgrError = "NoSuccessProviders"
            /\ \A other \in Selected \ {failed} :
                 /\ calculations[other].outcome = "none"
                    => calculations[other].state = "pending" /\ inFlight[other]
                 /\ ( calculations[other].outcome = "returns"
                      /\ calculations[other].hasTrade )
                    => RecordedAsReturned(other)

\* One provider threw, one rejected, one returned null, and the fourth
\* quoted: calculateTrade resolved with that quote.
C14_Witness ==
    /\ mgrPc = "resolved"
    /\ Len(mgrResult) = 1
    /\ mgrResult[1].hasTrade
    /\ \E a, b, c \in Selected :
         /\ calculations[a].outcome = "throws"
         /\ calculations[b].outcome = "rejects"
         /\ calculations[c].outcome = "returnsNull"

\* C15: the fan-out is launch-all-then-await-all: whenever the orchestrator
\* waits for the completion of a provider, and whenever a provider has
\* completed, calculate has been invoked on every selected provider.
C15_LaunchAllThenAwaitAll ==
    ( \/ mgrPc = "awaitCalculations"
      \/ \E type \in ProviderTypes : calculations[type].outcome # "none" )
    => \A type \in Selected :
         calculateCalls[type] >= 1 /\ calculations[type].state # "none"

\* The orchestrator waits for four providers, none of which has completed.
C15_Witness ==
    /\ mgrPc = "awaitCalculations"
    /\ Len(providers) = 4
    /\ \A type \in Selected :
         calculations[type].state = "pending" /\ calculateCalls[type] = 1

\* calculateTradeFromTokens has filtered the providers.
SelectionRan ==
    /\ mgrPc \notin {"idle", "awaitTokens"}
    /\ mgrError \notin {"BlockchainsMustBeDifferent", "TokenResolutionError"}

\* C16: a provider type listed in disabledProviders is never invoked and
\* never appears in the result.
C16_DisabledNeverInvoked ==
    \A type \in disabledProviders :
        /\ calculateCalls[type] = 0
        /\ calculations[type].state = "none"
        /\ type \notin ResultTypes
        /\ type \notin Selected

\* LIFI is disabled and calculateTrade resolved with the quotes of two
\* other providers.
C16_Witness ==
    /\ mgrPc = "resolved"
    /\ disabledProviders = {"LIFI"}
    /\ Len(mgrResult) = 2

\* C17: when Celer supports the source and the destination chain, RUBIC is
\* not invoked for that pair; when Celer does not support both chains, an
\* enabled RUBIC is invoked.
C17_GeneralSuppressedBySpecialized ==
    SelectionRan =>
        IF /\ isSupportedBlockchain(fromToken.blockchain)
           /\ isSupportedBlockchain(toToken.blockchain)
        THEN calculateCalls["RUBIC"] = 0 /\ "RUBIC" \notin Selected
        ELSE "RUBIC" \notin disabledProviders
             => calculateCalls["RUBIC"] = 1 /\ "RUBIC" \in Selected

\* Celer supports both chains and is invoked; RUBIC, though enabled, is not.
C17_Witness ==
    /\ SelectionRan
    /\ isSupportedBlockchain(fromToken.blockchain)
    /\ isSupportedBlockchain(toToken.blockchain)
    /\ "RUBIC" \notin disabledProviders
    /\ calculateCalls["CELER"] = 1
    /\ calculateCalls["RUBIC"] = 0

\* C18: if no provider remains after removing the disabled and the
\* suppressed providers, the calculation fails with the no-providers error
\* and no provider's calculate has been invoked.
C18_NoProvidersError ==
    ( SelectionRan /\ providers = <<>> )
    => /\ mgrPc = "rejected"
       /\ mgrError = "NoProvidersForTrade"
       /\ \A type \in ProviderTypes : calculateCalls[type] = 0

\* Every provider but RUBIC is disabled, RUBIC is suppressed by Celer, and
\* the calculation failed with the no-providers error.
C18_Witness ==
    /\ mgrPc = "rejected"
    /\ mgrError = "NoProvidersForTrade"
    /\ disabledProviders = ProviderTypes \ {"RUBIC"}
    /\ \A type \in ProviderTypes : calculateCalls[type] = 0

\* ------------------------------------------------------------- ranking claims
\* A reference price is available: a quote of the resolved sequence is a
\* Lifi trade, which carries the price of the source token.
ReferencePriceAvailable ==
    \E k \in DOMAIN mgrResult :
        mgrResult[k].tradeType = "LIFI" /\ mgrResult[k].hasTrade

\* The cost of a quote in the reference unit: the price of the source token,
\* plus the price of the crypto fee token for a Celer trade.
EffectiveCost(quote) ==
    fromPrice + (IF quote.tradeType = "CELER" THEN quote.cryptoFee ELSE 0)

\* The cost per unit of output has no finite value.
Unbounded(quote) == ~quote.hasTrade \/ quote.toAmount = 0

\* cost(a) / output(a) <= cost(b) / output(b)
RatioLE(a, b) ==
    \/ Unbounded(b)
    \/ /\ ~Unbounded(a)
       /\ EffectiveCost(a) * b.toAmount <= EffectiveCost(b) * a.toAmount

\* C19: when a reference price is available, the returned sequence is sorted
\* ascending by effective cost per unit of output, so its first element has
\* the minimum ratio among all returned quotes.
C19_SortedAscendingByRatio ==
    ( mgrPc = "resolved" /\ ReferencePriceAvailable )
    => /\ \A j, k \in DOMAIN mgrResult :
            j < k => RatioLE(mgrResult[j], mgrResult[k])
       /\ \A k \in DOMAIN mgrResult : RatioLE(mgrResult[1], mgrResult[k])

\* Symbiosis quoted the dearer ratio, another provider timed out and Lifi
\* quoted the cheaper ratio: the result is [Lifi, Symbiosis].
C19_Witness ==
    /\ mgrPc = "resolved"
    /\ Len(mgrResult) = 2
    /\ mgrResult[1].tradeType = "LIFI"
    /\ mgrResult[2].tradeType = "SYMBIOSIS"
    /\ mgrResult[2].hasTrade
    /\ ~RatioLE(mgrResult[2], mgrResult[1])
    /\ \E slow \in Selected : calculations[slow].outcome = "timeout"

\* C20 as stated: for two quotes with the same output amount, the Celer
\* trade, which additionally charges its crypto fee, has a strictly greater
\* ratio than the quote without a fee and is ranked strictly after it.
C20_FixedCostRanksAfter ==
    ( mgrPc = "resolved" /\ ReferencePriceAvailable )
    => \A j, k \in DOMAIN mgrResult :
         ( /\ mgrResult[j].hasTrade /\ mgrResult[j].tradeType # "CELER"
           /\ mgrResult[k].hasTrade /\ mgrResult[k].tradeType = "CELER"
           /\ mgrResult[j].toAmount = mgrResult[k].toAmount )
         => ~RatioLE(mgrResult[k], mgrResult[j]) /\ j < k

\* C20 amended: when a reference price is available, for two quotes with
\* the same positive output amount, the Celer trade, which additionally
\* charges its crypto fee, has a strictly greater ratio than the quote
\* without a fee and is ranked strictly after it.
C20_FixedCostRanksAfterForPositiveOutput ==
    ( mgrPc = "resolved" /\ ReferencePriceAvailable )
    => \A j, k \in DOMAIN mgrResult :
         ( /\ mgrResult[j].hasTrade /\ mgrResult[j].tradeType # "CELER"
           /\ mgrResult[k].hasTrade /\ mgrResult[k].tradeType = "CELER"
           /\ mgrResult[j].toAmount = mgrResult[k].toAmount
           /\ mgrResult[j].toAmount > 0 )
         => ~RatioLE(mgrResult[k], mgrResult[j]) /\ j < k

\* Celer and Lifi quoted the same positive output: Lifi, later in the
\* registry, stands before Celer in the result.
C20_Witness ==
    /\ mgrPc = "resolved"
    /\ Len(mgrResult) = 2
    /\ mgrResult[1].tradeType = "LIFI"
    /\ mgrResult[2].tradeType = "CELER"
    /\ mgrResult[2].hasTrade
    /\ mgrResult[1].toAmount = mgrResult[2].toAmount
    /\ mgrResult[1].toAmount > 0

\* The sequence stands in the ratio ordering.
RatioOrdered(quotes) ==
    \A j, k \in DOMAIN quotes : j < k => RatioLE(quotes[j], quotes[k])

\* C21: the reference price of the input token is taken from whichever
\* successful quote carries one: whenever at least one quote with a trade in
\* the collected results carries an input-token price, the ratio ordering is
\* used and the fallback ordering is not.
C21_RatioOrderingWheneverPriceCarried ==
    ( /\ mgrPc = "resolved"
      /\ \E k \in DOMAIN mgrResult :
           tradeFromPrice(mgrResult[k], fromPrice) # Null )
    => RatioOrdered(mgrResult)

\* C22: when no reference price is obtainable, the fallback ordering returns
\* a sequence in which every quote with a trade stands before every quote
\* without one.
C22_FallbackPutsTradesFirst ==
    ( mgrPc = "resolved" /\ ~ReferencePriceAvailable )
    => \A j, k \in DOMAIN mgrResult :
         j < k => ( mgrResult[j].hasTrade \/ ~mgrResult[k].hasTrade )

\* Celer, first in the registry, returned an error outcome, Symbiosis a
\* quote and Lifi an error outcome: the quote stands first in the result.
C22_Witness ==
    /\ mgrPc = "resolved"
    /\ ~ReferencePriceAvailable
    /\ Len(mgrResult) = 3
    /\ mgrResult[1].tradeType = "SYMBIOSIS" /\ mgrResult[1].hasTrade
    /\ ~mgrResult[2].hasTrade
    /\ ~mgrResult[3].hasTrade
    /\ "CELER" \in ResultTypes /\ "LIFI" \in ResultTypes

\* The place of a provider type in the registry, which is the order the
\* quotes are collected in.
RegistryIndex(type) == CHOOSE k \in DOMAIN tradeProviders : tradeProviders[k] = type

\* C23: ranking by ratio is stable: two quotes with equal ratios appear in
\* the result in the relative order in which they were collected.
C23_EqualRatiosKeepCollectedOrder ==
    ( mgrPc = "resolved" /\ ReferencePriceAvailable )
    => \A j, k \in DOMAIN mgrResult :
         ( /\ j < k
           /\ RatioLE(mgrResult[j], mgrResult[k])
           /\ RatioLE(mgrResult[k], mgrResult[j]) )
         => RegistryIndex(mgrResult[j].tradeType)
                < RegistryIndex(mgrResult[k].tradeType)

\* Celer, Symbiosis and Lifi quoted the same positive output: Symbiosis and
\* Lifi have equal ratios and keep their order, the dearer Celer moved from
\* the first to the last place.
C23_Witness ==
    /\ mgrPc = "resolved"
    /\ Len(mgrResult) = 3
    /\ mgrResult[1].tradeType = "SYMBIOSIS"
    /\ mgrResult[2].tradeType = "LIFI"
    /\ mgrResult[3].tradeType = "CELER"
    /\ \A k \in 1..3 : mgrResult[k].hasTrade /\ mgrResult[k].toAmount = 1

\* C25: a provider result that arrives after that provider lost the deadline
\* race is discarded and never appears in the returned sequence, and the
\* fan-out is complete once every provider has either settled or timed out,
\* whether or not the calculate of a provider that timed out ever settles.
C25_LateResultDiscarded ==
    /\ \A type \in Selected :
         calculations[type].outcome = "timeout"
         => calculations[type].state = "null" /\ type \notin ResultTypes
    /\ EveryOutcomeKnown => mgrPc \in {"resolved", "rejected"}

\* calculateTrade resolved; one provider that timed out has settled since,
\* the calculate of another one is still in flight.
C25_Witness ==
    /\ mgrPc = "resolved"
    /\ \E late, never \in Selected :
         /\ calculations[late].outcome = "timeout" /\ ~inFlight[late]
         /\ calculations[never].outcome = "timeout" /\ inFlight[never]
         /\ late \notin ResultTypes

\* The wrapped objects the selected providers returned in time, in the order
\* of the registry.
CollectedInRegistryOrder ==
    LET returned == FilterSeq(tradeProviders,
                              {type \in Selected :
                                   calculations[type].state = "wrapped"})
    IN  [k \in 1..Len(returned) |-> WrappedTrade(calculations[returned[k]])]

\* C26: the sequence returned by calculateTrade does not depend on the order
\* in which the providers complete: it is a function of the per-provider
\* outcomes, so every completion interleaving yields the same ordered
\* result.
C26_ResultIndependentOfCompletionOrder ==
    mgrPc = "resolved"
    => mgrResult = calculateBestTradeFromTokens(CollectedInRegistryOrder, fromPrice)

\* Four providers were selected; three quoted, Lifi rejected, and the result
\* holds the three quotes.
C26_Witness ==
    /\ mgrPc = "resolved"
    /\ Len(providers) = 4
    /\ Len(mgrResult) = 3
    /\ \A k \in 1..3 : mgrResult[k].hasTrade
    /\ calculations["LIFI"].outcome = "rejects"

\* C27: within one orchestration pass each selected provider's calculate is
\* invoked exactly once: a provider that fails, returns null or times out is
\* never invoked again in that pass.
C27_CalculateInvokedOnce ==
    /\ \A type \in ProviderTypes : calculateCalls[type] <= 1
    /\ ( SelectionRan /\ providers # <<>> )
       => \A type \in ProviderTypes :
            calculateCalls[type] = (IF type \in Selected THEN 1 ELSE 0)

\* One provider timed out, one rejected and one returned null; the pass is
\* over and each of them was invoked once.
C27_Witness ==
    /\ mgrPc \in {"resolved", "rejected"}
    /\ \E a, b, c \in Selected :
         /\ calculations[a].outcome = "timeout" /\ calculateCalls[a] = 1
         /\ calculations[b].outcome = "rejects" /\ calculateCalls[b] = 1
         /\ calculations[c].outcome = "returnsNull" /\ calculateCalls[c] = 1

\* ------------------------------------------------------------- Web3Public claims
\* The callers a and b asked for the same key and b called while a waited
\* for its fetch.
Overlapped(a, b) == a # b /\ a \in tiJoined[b]

\* C24: two lookups of callForTokenInfo for the same (token address,
\* requested fields), the second issued while the first is outstanding,
\* cause one remote fetch, and both callers get the outcome of that fetch.
C24_ConcurrentLookupsShareOneFetch ==
    \A a, b \in Callers :
        Overlapped(a, b) =>
            /\ tiFetch[a] = tiFetch[b]
            /\ Cardinality({n \in DOMAIN tiFetches : tiFetches[n].key = tiKey[b]}) = 1
            /\ tiPc[a] = tiPc[b]
            /\ tiPc[a] # "waiting" =>
                 /\ tiPc[a] = tiFetches[tiFetch[a]].state
                 /\ tiResult[a] = tiFetches[tiFetch[a]].value
                 /\ tiResult[b] = tiFetches[tiFetch[a]].value

\* Two callers overlapped on the default fields of one token and both
\* resolved with the three fields.
C24_Witness ==
    \E a, b \in Callers :
        /\ Overlapped(a, b)
        /\ tiKey[a].tokenFields = DefaultTokenFields
        /\ tiPc[a] = "resolved" /\ tiPc[b] = "resolved"
        /\ DOMAIN tiResult[b] = {"decimals", "symbol", "name"}
        /\ tiResult[b].decimals # tiResult[b].symbol

\* C28: when the caller hands over an attemptsLimit, getTransactionByHash
\* calls getTransaction at most attemptsLimit times.
C28_AtMostAttemptsLimitLookups ==
    txArgs.attemptsLimit # Null => txLookups <= txArgs.attemptsLimit

\* C29: healthCheck returns null when no healthcheck is defined for the
\* blockchain.
C29_NullWhenNoHealthcheck ==
    (hcPc = "resolved" /\ ~isBlockchainHealthcheckAvailable(hcHealthcheck))
        => hcResult = "null"

\* C30: web3BatchRequest resolves with one result per call, the result at
\* position i being the one the callback of call i was fired with, whatever
\* the order the callbacks fired in.
C30_ResultsInInputOrder ==
    wbPc = "resolved" =>
        /\ Len(wbResult) = Len(wbCalls)
        /\ \A i \in DOMAIN wbCalls : wbResult[i] = wbPromises[i].value

\* The callback of the second call fired before that of the first, with
\* different results, and the request resolved.
C30_Witness ==
    /\ wbPc = "resolved"
    /\ wbFired = <<2, 1>>
    /\ wbResult[1] # wbResult[2]

\* The node answered the expected value within the timeout.
AnsweredExpected == hcOutcome = "answered" /\ hcAnswer = hcHealthcheck

\* C31: healthCheck never rejects; it resolves to false when the node call
\* times out, answers another value than the expected one or fails, and to
\* true only when no healthcheck is defined or the node answered the
\* expected value within the timeout.
C31_HealthCheckNeverRejects ==
    /\ hcPc \in {"idle", "awaitCall", "resolved"}
    /\ hcPc = "resolved" =>
         /\ hcResult \in {"true", "false"}
         /\ hcOutcome \in {"timeout", "failed"} => hcResult = "false"
         /\ (hcOutcome = "answered" /\ hcAnswer # hcHealthcheck) => hcResult = "false"
         /\ hcResult = "true" =>
              \/ ~isBlockchainHealthcheckAvailable(hcHealthcheck)
              \/ AnsweredExpected

\* The contract call of a defined healthcheck failed and healthCheck
\* resolved to false.
C31_Witness ==
    /\ hcPc = "resolved"
    /\ isBlockchainHealthcheckAvailable(hcHealthcheck)
    /\ hcOutcome = "failed"
    /\ hcResult = "false"

\* C32: getTokensBalances leaves the list of the caller as it was passed
\* in, also when the list holds the native address.
C32_CallerListUnchanged ==
    mcEntry = "getTokensBalances" => tokensAddresses = passedIn

\* Position (1-based) in the returned balances of sub-call k (1-based) of
\* the multicall set: the native balance is put back in front of the
\* sub-calls that followed the extracted entry.
ResultPosition(k) ==
    IF indexOfNativeCoin # -1 /\ k > indexOfNativeCoin THEN k + 1 ELSE k

\* Both queries of getTokensBalances have returned.
QueriesReturned ==
    /\ mcEntry = "getTokensBalances"
    /\ multicallPromise = "done"
    /\ balancePromise \in {"none", "done"}

\* C37: in getTokensBalances a failed sub-call of the multicall gives the
\* balance 0 at its own position, every other sub-call gives the number of
\* its own returned data at its position, and getTokensBalances resolves.
C37_FailedSubCallIsZero ==
    QueriesReturned =>
        /\ mcPc = "resolved"
        /\ \A k \in DOMAIN outputs :
             mcResult[ResultPosition(k)] =
                 IF outputs[k].success THEN outputs[k].returnData[2] ELSE 0

\* A resolved getTokensBalances with the native address in front, whose
\* first sub-call failed and whose second returned a balance above 0.
C37_Witness ==
    /\ QueriesReturned
    /\ mcPc = "resolved"
    /\ indexOfNativeCoin = 0
    /\ Len(outputs) >= 2
    /\ ~outputs[1].success /\ outputs[1].returnData[2] > 0
    /\ outputs[2].success /\ outputs[2].returnData[2] > 0
    /\ mcResult[2] = 0 /\ mcResult[3] > 0

\* The comparator of the fallback ordering puts a before b.
FallbackBefore(a, b) == compareFn(a, b, Null) < 0

\* C33: the comparator of the fallback ordering never puts a before b and
\* also b before a, it takes two quotes that both have a trade, or both lack
\* one, as equal, and such quotes keep the order they were collected in.
C33_FallbackComparatorConsistent ==
    ( mgrPc = "resolved" /\ ~ReferencePriceAvailable )
    => \A j, k \in DOMAIN mgrResult :
         j # k =>
           /\ ~( /\ FallbackBefore(mgrResult[j], mgrResult[k])
                 /\ FallbackBefore(mgrResult[k], mgrResult[j]) )
           /\ mgrResult[j].hasTrade = mgrResult[k].hasTrade
                => /\ compareFn(mgrResult[j], mgrResult[k], Null) = 0
                   /\ j < k => RegistryIndex(mgrResult[j].tradeType)
                                 < RegistryIndex(mgrResult[k].tradeType)

\* C34: RUBIC is suppressed only by a Celer that takes part: when CELER is
\* listed in disabledProviders and RUBIC is not, RUBIC is invoked for a pair
\* of blockchains Celer supports.
C34_SuppressedOnlyByParticipatingCeler ==
    ( /\ SelectionRan
      /\ "CELER" \in disabledProviders
      /\ "RUBIC" \notin disabledProviders
      /\ isSupportedBlockchain(fromToken.blockchain)
      /\ isSupportedBlockchain(toToken.blockchain) )
    => calculateCalls["RUBIC"] = 1 /\ "RUBIC" \in Selected

\* C35: in the ratio ordering every collected quote whose trade is null has
\* an infinite ratio and stands after every quote that has a trade and a
\* positive output amount.
C35_NullTradeRanksLast ==
    ( mgrPc = "resolved" /\ ReferencePriceAvailable )
    => \A j \in DOMAIN mgrResult :
         ~mgrResult[j].hasTrade =>
           /\ getProviderRatio(mgrResult[j], fromPrice) = Infinity
           /\ \A k \in DOMAIN mgrResult :
                (mgrResult[k].hasTrade /\ mgrResult[k].toAmount > 0) => k < j

\* Celer, collected first, returned an error outcome and Lifi a quote with
\* a positive output: the quote of Lifi stands first, the outcome of Celer
\* after it.
C35_Witness ==
    /\ mgrPc = "resolved"
    /\ Len(mgrResult) >= 2
    /\ mgrResult[1].tradeType = "LIFI"
    /\ mgrResult[1].hasTrade /\ mgrResult[1].toAmount > 0
    /\ \E j \in DOMAIN mgrResult :
         /\ mgrResult[j].tradeType = "CELER"
         /\ ~mgrResult[j].hasTrade
         /\ j > 1

\* getTransactionByHash is under way.
TxRunning == txPc \in {"awaitGetTransaction", "awaitTimer"}

\* getTransactionByHash has settled.
TxSettled == txPc \in {"resolved", "rejected"}

\* One step of getTransactionByHash: a retry is made with a greater attempt,
\* a lookup that found nothing is followed by the timer and no other lookup,
\* and the operation resolves from a lookup only with the transaction found,
\* without a further lookup, and from a retry only with null.
TxStep ==
    /\ txPc = "awaitTimer" =>
         /\ txAttempt' = txAttempt + 1
         /\ txPc' = "resolved" => (txResult' = "null" /\ txLookups' = txLookups)
    /\ txPc = "awaitGetTransaction" =>
         /\ txLookups' = txLookups
         /\ txPc' = "resolved" => txResult' = "0xTransaction"
    /\ TxSettled => UNCHANGED txVars

\* C36: getTransactionByHash terminates for every input: every retry is made
\* with a greater attempt, a found transaction resolves the operation
\* without a further lookup, and an operation under way settles.
C36_GetTransactionByHashTerminates ==
    /\ [][TxStep]_txVars
    /\ TxRunning ~> TxSettled

\* The transaction was never found: ten lookups, then null.
C36_Witness ==
    /\ txPc = "resolved"
    /\ txResult = "null"
    /\ txLookups = DefaultAttemptsLimit
    /\ txAttempt = DefaultAttemptsLimit

\* A call of getCrossChainContract changes the stored entry of no
\* blockchain but its own.
OtherEntriesUnchanged ==
    \A blockchain \in CrossChainSupportedBlockchains :
        blockchain # ccLast'.blockchain
            => ccContracts'[blockchain] = ccContracts[blockchain]

\* C38: after any sequence of calls of getCrossChainContract at most one
\* ContractData was constructed per blockchain, every call for a blockchain
\* returns the instance the first call for it returned, and a call changes
\* the stored entry of no other blockchain.
C38_OneContractDataPerBlockchain ==
    /\ [](\A blockchain \in CrossChainSupportedBlockchains :
            /\ ccConstructed[blockchain] <= 1
            /\ ccLast.blockchain = blockchain
                 => ccLast.returned # Null /\ ccLast.returned = ccFirst[blockchain])
    /\ [][OtherEntriesUnchanged]_ccVars

\* Three calls, the first and the third for the same blockchain: the third
\* returned the instance of the first, and two were constructed in all.
C38_Witness ==
    /\ ccCalls = 3
    /\ ccInstances = 2
    /\ ccFirst["ETH"] = 1
    /\ ccFirst["BSC"] = 2
    /\ ccLast = [blockchain |-> "ETH", returned |-> 1]

vars == <<rpcVars, mcVars, mgrVars, txVars, hcVars, wbVars, tiVars, ccVars>>

Init == RpcInit /\ McInit /\ MgrInit /\ TxInit /\ HcInit /\ WbInit /\ TiInit /\ CcInit

SpecRpc == Init /\ [][RpcNext]_vars
SpecConc == Init /\ [][ConcNext]_vars
SpecMulticall == Init /\ [][McNext]_vars
SpecManager == Init /\ [][MgrNext]_vars
SpecFanOut == Init /\ [][FanOutNext]_vars
SpecTx == Init /\ [][TxNext]_vars
\* The node settles every lookup and every timer fires.
TxFairness ==
    /\ WF_vars((\E transaction \in TransactionLookups : GetTransactionResolve(transaction))
                 \/ GetTransactionReject)
    /\ WF_vars(RetryTimerFires)
SpecTxLive == Init /\ [][TxNext]_vars /\ TxFairness
SpecHealth == Init /\ [][HcNext]_vars
SpecWeb3Batch == Init /\ [][WbNext]_vars
SpecTokenInfo == Init /\ [][TiNext]_vars
SpecContracts == Init /\ [][CcNext]_vars
====
